---------------------------- MODULE Spec2Model ----------------------------
(***************************************************************************)
(* zarv-go, package rabbitmq: the consumer's Consume / HandleMessage.      *)
(*                                                                         *)
(* One consumer instance runs Consume(concurrency) once.  The goroutines   *)
(* of the program are modelled as processes that interleave at their       *)
(* synchronisation points: the Consume goroutine (pc), the cleanup         *)
(* goroutine started at queueconsumer.go:85 (cpc) and one HandleMessage    *)
(* goroutine per dispatched delivery (st[d]).  The broker, the amqp091     *)
(* library and the owner of the context are the environment: they deliver  *)
(* messages, close the channel or the delivery stream, and cancel the      *)
(* context at any moment.  The broker-side prefetch window set by ch.Qos   *)
(* is not relied upon: the delivery stream may hand over a delivery        *)
(* whenever the loop is ready to read one.                                 *)
(***************************************************************************)
EXTENDS Integers, FiniteSets, Sequences, TLC

\* Largest concurrency argument explored (Consume(1) .. Consume(MaxConcurrency)).
MaxConcurrency == 2
\* Number of deliveries the broker may hand over during one Consume call.
MaxDeliveries == 2
\* Goroutines that call Publish or Close on the one producer.
MaxCallers == 2
\* Number of Publish and Close calls started in a run.
MaxCalls == 2
\* Channels the connection lets the producer open (its channel-max).
MaxChannels == 2
\* Number of CreateTopic and CreateSubscription calls started in a run.
MaxAdminCalls == 3
\* Number of messages Pub/Sub hands to the subscriber during one Receive call.
MaxMessages == 2

Deliveries == 1..MaxDeliveries
Callers == 1..MaxCallers
Channels == 1..MaxChannels
Messages == 1..MaxMessages
\* The Pub/Sub resources the client's calls name: one topic and one
\* subscription of it.
Resources == {"topic", "subscription"}

\* The arguments Consume is called with.  Consume takes any int and does not
\* look at it (queueconsumer.go:34-80): a negative one, zero, and 1..MaxConcurrency.
Concurrencies == -1..MaxConcurrency

\* What handler.HandleMessage(msg.Body) can do: return nil, return an error, panic.
Outcomes == {"nil", "err", "panic"}

VARIABLES
    concurrency,  \* the argument of Consume
    pc,           \* position of the Consume goroutine
    via,          \* which return statement Consume left through
    ret,          \* the value Consume returned
    ch,           \* the AMQP channel opened by Consume: "none", "open",
                  \* "closedByError", "closed"
    closeChan,    \* the NotifyClose channel (capacity 1): "empty", "err", "closed"
    msgsClosed,   \* the delivery stream msgs has been closed
    nread,        \* number of deliveries read from msgs so far
    body,         \* per delivery: "unknown" (not read), "empty", "data"
    st,           \* per delivery: position of its HandleMessage goroutine
    outcome,      \* per delivery: what the handler did ("none" before it ends)
    acks,         \* per delivery: number of msg.Ack calls
    nacks,        \* per delivery: number of msg.Nack calls
    requeue,      \* per delivery: the requeue argument of the last Nack call
    semaphore,    \* number of tokens in the buffered channel semaphore
    wg,           \* counter of the sync.WaitGroup
    done,         \* the done channel has been closed
    shutdownErr,  \* "nil" or "channelClosed"
    cpc,          \* position of the cleanup goroutine: "idle", "select", "exited"
                  \* ("killed", like a HandleMessage goroutine, if the process died)
    ctxDone       \* the client context has been cancelled

\* The producer (queueproducer.go:26-31) and what it works on.
VARIABLES
    conn,         \* the client's connection: "open", "closed"
    chs,          \* per channel the producer opened from conn: "unopened",
                  \* "open", "closed"
    nch,          \* number of channels the producer has opened
    pch,          \* p.ch: the channel the producer refers to
    mu,           \* p.mu: 0 when free, else the caller holding it
    ncalls,       \* number of Publish and Close calls started
    call,         \* per caller: its current or last call of Publish or Close
    mon,          \* per monitorChannel goroutine: "none", "start", "watching",
                  \* "exited"
    watch         \* per monitorChannel goroutine: the channel it registered on

\* The client (queueproducer.go:621-624) the producer was made from.
VARIABLES
    client        \* the NewClient call and the client it returned: its
                  \* position, its arguments, the dials made, its result, the
                  \* client.Close calls made and the last one's result, the
                  \* last answer of client.IsClosed, and the result of its
                  \* NewProducer call

\* Google Cloud Pub/Sub: the service, the client's administrative calls
\* (part_003:75-124) and the subscriber (part_004).
VARIABLES
    exists,       \* per resource: it exists in the project
    created,      \* per resource: number of times the service created it
    nadm,         \* number of CreateTopic and CreateSubscription calls started
    adm,          \* per caller: its current or last administrative call
    rcv,          \* the Receive call: its position, its argument, the receive
                  \* settings of the subscription, its result
    msg           \* per message: its handleMessage call

\* The Pub/Sub publisher (part_003:159-240) and a request passing through the
\* Authenticate middleware (part_008:128-263).
VARIABLES
    pub,          \* the publisher: its stopped flag, its mutex, its callers'
                  \* calls, and what was done to the underlying topic
    auth          \* the request: its headers, the response status, whether
                  \* the next handler ran, the context's locals, the profile
                  \* read from them and the answers of the profile's methods

gcpVars == <<exists, created, nadm, adm, rcv, msg>>

webVars == <<pub, auth>>

prodVars == <<conn, chs, nch, pch, mu, ncalls, call, mon, watch>>

vars == <<concurrency, pc, via, ret, ch, closeChan, msgsClosed, nread, body, st,
          outcome, acks, nacks, requeue, semaphore, wg, done, shutdownErr, cpc,
          ctxDone, prodVars, client, gcpVars, webVars>>

\* The consumer's variables, but for the client context it shares.
consVars == <<concurrency, pc, via, ret, ch, closeChan, msgsClosed, nread, body,
              st, outcome, acks, nacks, requeue, semaphore, wg, done,
              shutdownErr, cpc>>

mainVars == <<pc, via, ret>>
chanVars == <<ch, closeChan, msgsClosed>>
delivVars == <<nread, body, st, outcome, acks, nacks, requeue>>
syncVars == <<semaphore, wg, done, shutdownErr, cpc>>

\* A call that has not started: no operation, no result.
NoCall == [pc |-> "idle", op |-> "none", found |-> FALSE, opens |-> 0,
           newCh |-> 0, declCh |-> 0, sendCh |-> 0, result |-> "none"]

\* An administrative call that has not started.
NoAdm == [pc |-> "idle", op |-> "none", saw |-> "none", issued |-> 0,
          result |-> "none"]

\* A message Pub/Sub has not handed over yet.
NoMsg == [st |-> "pending", outcome |-> "none", acks |-> 0, nacks |-> 0,
          propagated |-> FALSE]

\* Pub/Sub with nothing created and no call made; the subscription's receive
\* settings are the library's defaults.
PubSubIdle ==
    /\ exists = [r \in Resources |-> FALSE]
    /\ created = [r \in Resources |-> 0]
    /\ nadm = 0
    /\ adm = [a \in Callers |-> NoAdm]
    /\ rcv = [pc |-> "idle", concurrency |-> 1, settings |-> {},
              result |-> "none"]
    /\ msg = [m \in Messages |-> NoMsg]

\* The keys of the request context's locals (part_008:102-106).
localWorkspaceId == "workspaceId"
localUserId == "userId"
localSource == "source"
localRole == "role"
localAccessLevel == "accessLevel"

LocalKeys == {localWorkspaceId, localUserId, localSource, localRole,
              localAccessLevel}

\* The header keys (part_008:109-114).
headerXIssuer == "X-Issuer"
headerXWorkspaceId == "X-Workspace-Id"
headerXUserId == "X-User-Id"
headerXZarvRole == "X-Zarv-Role"
headerXAccessLevel == "X-Access-Level"
headerXInternal == "X-Internal"

HeaderKeys == {headerXIssuer, headerXWorkspaceId, headerXUserId,
               headerXZarvRole, headerXAccessLevel, headerXInternal}

\* The header values the code names (part_008:117-126).
headerZarverRole == "zarver"
accessLevelViewer == "viewer"
accessLevelUser == "user"
accessLevelSupervisor == "supervisor"
accessLevelAdmin == "admin"
internalSource == "internal"
verificationSourceUI == "UI"
verificationSourceAPI == "API"

\* fiber.StatusBadRequest (part_008:173) and the status of a response nobody has
\* changed, which the tests expect of a request that passes (part_008:29).
StatusBadRequest == 400
StatusOK == 200

\* What a request may carry under each header; c.Get answers "" for a header
\* that is absent, so "" stands for absent and for empty alike.
HeaderValues(h) ==
    CASE h = headerXInternal -> {"", internalSource, "cron"}
      [] h = headerXIssuer -> {"", "ultron-app", "partner"}
      [] h = headerXWorkspaceId -> {"", "ws1"}
      [] h = headerXUserId -> {"", "user1"}
      [] h = headerXZarvRole -> {"", headerZarverRole, "member"}
      [] h = headerXAccessLevel -> {"", accessLevelViewer, accessLevelUser,
                                    accessLevelSupervisor, accessLevelAdmin}

Requests == {r \in [HeaderKeys -> UNION {HeaderValues(h) : h \in HeaderKeys}] :
                \A h \in HeaderKeys : r[h] \in HeaderValues(h)}

\* The value c.Locals answers for a key nothing was stored under.
Nil == "<nil>"

NoLocals == [k \in LocalKeys |-> Nil]

\* The zero AuthProfile (part_008:131-142).
ZeroProfile == [WorkspaceID |-> "", UserID |-> "", Role |-> "", Source |-> "",
                AccessLevel |-> ""]

NoAnswers == [IsZarvAdmin |-> FALSE, IsUserAdmin |-> FALSE, IsViewer |-> FALSE]

\* A request with no header, before the middleware ran: the response has
\* its initial status, nothing is stored, no profile was made (from says
\* where the profile came from: the context or a literal).
NoRequest == [pc |-> "request", headers |-> [h \in HeaderKeys |-> ""],
              status |-> StatusOK, next |-> FALSE, locals |-> NoLocals,
              from |-> "none", profile |-> ZeroProfile,
              asked |-> FALSE, answers |-> NoAnswers]

\* The publisher as NewPublisher returns it (part_003:183-186): not stopped,
\* its mutex free, no call made, the topic untouched.
\* A call carries its body and, once it has invoked topic.Publish, whether
\* the stopped flag was set and whether the topic was stopped at that moment.
NoPubCall == [pc |-> "idle", op |-> "none", body |-> "none",
              sentStopped |-> FALSE, sentOnStoppedTopic |-> FALSE,
              result |-> "none"]

PublisherNew == [stopped |-> FALSE, mu |-> 0, ncalls |-> 0,
                 call |-> [c \in Callers |-> NoPubCall],
                 topicStops |-> 0, topicPublishes |-> 0]

\* The publisher and the request at rest.
WebIdle == pub = PublisherNew /\ auth = NoRequest

\* The client as a successful NewClient returns it (queueproducer.go:629-650),
\* a context, a URL, one dial, no error, after its NewProducer call returned
\* a producer; client.Close not yet called.
ClientReady == [pc |-> "ready", ctx |-> "given", url |-> "good", dials |-> 1,
                result |-> "nil", closes |-> 0, lastClose |-> "none",
                isClosed |-> "none", producer |-> "nil"]

\* The producer as NewProducer returns it (queueproducer.go:37-53): one
\* channel opened from the live connection, and its monitor goroutine started.
ProducerNew ==
    /\ conn = "open"
    /\ chs = [k \in Channels |-> IF k = 1 THEN "open" ELSE "unopened"]
    /\ nch = 1
    /\ pch = 1
    /\ mu = 0
    /\ ncalls = 0
    /\ call = [c \in Callers |-> NoCall]
    /\ mon = [k \in Channels |-> IF k = 1 THEN "start" ELSE "none"]
    /\ watch = [k \in Channels |-> 0]

Init ==
    /\ concurrency \in Concurrencies
    /\ pc = "start"
    /\ via = "none"
    /\ ret = "none"
    /\ ch = "none"
    /\ closeChan = "empty"
    /\ msgsClosed = FALSE
    /\ nread = 0
    /\ body = [d \in Deliveries |-> "unknown"]
    /\ st = [d \in Deliveries |-> "unread"]
    /\ outcome = [d \in Deliveries |-> "none"]
    /\ acks = [d \in Deliveries |-> 0]
    /\ nacks = [d \in Deliveries |-> 0]
    /\ requeue = [d \in Deliveries |-> FALSE]
    /\ semaphore = 0
    /\ wg = 0
    /\ done = FALSE
    /\ shutdownErr = "nil"
    /\ cpc = "idle"
    /\ ctxDone = FALSE
    /\ ProducerNew
    /\ client = ClientReady
    /\ PubSubIdle
    /\ WebIdle

-----------------------------------------------------------------------------
(* Consume: set-up (queueconsumer.go:35-82)                                *)

\* Mutant: ch.Close() is not deferred.
DeferredClose_Skipped ==
    /\ ch' = ch
    /\ closeChan' = closeChan
    /\ msgsClosed' = msgsClosed

\* The deferred ch.Close() of line 43: the channel is closed, which closes the
\* NotifyClose channel (without a value) and the delivery stream.
DeferredClose ==
    /\ ch' = IF ch = "open" THEN "closed" ELSE ch
    /\ closeChan' = IF closeChan = "empty" THEN "closed" ELSE closeChan
    /\ msgsClosed' = TRUE

\* c.conn.Channel() succeeds; NotifyClose is registered; ch.Close is deferred.
OpenChannel ==
    /\ pc = "start"
    /\ pc' = "declare"
    /\ ch' = "open"
    /\ UNCHANGED <<webVars, gcpVars, client, prodVars, concurrency, via, ret, closeChan, msgsClosed, delivVars,
                   syncVars, ctxDone>>

\* c.conn.Channel() fails: return before anything was opened.
OpenChannelFails ==
    /\ pc = "start"
    /\ pc' = "returned"
    /\ via' = "setup"
    /\ ret' = "errOpen"
    /\ UNCHANGED <<webVars, gcpVars, client, prodVars, concurrency, chanVars, delivVars, syncVars, ctxDone>>

\* One of QueueDeclare, Qos, ch.Consume succeeds (only on an open channel).
\* After ch.Consume, lines 79-99: wg, semaphore and done are created and the
\* cleanup goroutine starts; make(chan struct{}, concurrency) panics on a
\* negative capacity, which nothing recovers.
SetupStep ==
    /\ pc \in {"declare", "qos", "consume"}
    /\ ch = "open"
    /\ pc' = CASE pc = "declare" -> "qos"
               [] pc = "qos" -> "consume"
               [] pc = "consume" -> IF concurrency < 0 THEN "crashed" ELSE "loop"
    /\ cpc' = IF pc = "consume" /\ concurrency >= 0 THEN "select" ELSE cpc
    /\ UNCHANGED <<webVars, gcpVars, client, prodVars, concurrency, via, ret, chanVars, delivVars, semaphore, wg,
                   done, shutdownErr, ctxDone>>

\* One of QueueDeclare, Qos, ch.Consume fails: return the error, close the channel.
SetupFails ==
    /\ pc \in {"declare", "qos", "consume"}
    /\ pc' = "returned"
    /\ via' = "setup"
    /\ ret' = CASE pc = "declare" -> "errDeclare"
                [] pc = "qos" -> "errQos"
                [] pc = "consume" -> "errConsume"
    /\ DeferredClose
    /\ UNCHANGED <<webVars, gcpVars, client, prodVars, concurrency, delivVars, syncVars, ctxDone>>

-----------------------------------------------------------------------------
(* The environment: context owner, broker and amqp091 library              *)

\* The owner of the client context cancels it (a cancellation after Consume
\* has returned is read by nobody).
CancelContext ==
    /\ ~ctxDone
    /\ pc # "returned"
    /\ ctxDone' = TRUE
    /\ UNCHANGED <<webVars, gcpVars, client, prodVars, concurrency, mainVars, chanVars, delivVars, syncVars>>

\* The broker (or the network) closes the channel with an error: the library
\* sends the error on the NotifyClose channel.
ChannelClosedWithError ==
    /\ ch = "open"
    /\ ch' = "closedByError"
    /\ closeChan' = "err"
    /\ UNCHANGED <<webVars, gcpVars, client, prodVars, concurrency, mainVars, msgsClosed, delivVars, syncVars, ctxDone>>

\* The channel is closed without an error (the connection is closed by its
\* owner): the NotifyClose channel is closed without a value.
ChannelClosedGracefully ==
    /\ ch = "open"
    /\ ch' = "closed"
    /\ closeChan' = "closed"
    /\ UNCHANGED <<webVars, gcpVars, client, prodVars, concurrency, mainVars, msgsClosed, delivVars, syncVars, ctxDone>>

\* The delivery stream ends: the library closes msgs after a channel shutdown,
\* or the broker cancels the consumer while the channel stays open.
StreamCloses ==
    /\ pc = "loop"
    /\ ~msgsClosed
    /\ msgsClosed' = TRUE
    /\ UNCHANGED <<webVars, gcpVars, client, prodVars, concurrency, mainVars, ch, closeChan, delivVars, syncVars, ctxDone>>

-----------------------------------------------------------------------------
(* The cleanup goroutine (queueconsumer.go:85-99)                          *)

\* case err := <-closeChan: record a non-nil error, then close(done).
CleanupOnClose ==
    /\ cpc = "select"
    /\ closeChan # "empty"
    /\ shutdownErr' = IF closeChan = "err" THEN "channelClosed" ELSE shutdownErr
    /\ closeChan' = "closed"
    /\ done' = TRUE
    /\ cpc' = "exited"
    /\ UNCHANGED <<webVars, gcpVars, client, prodVars, concurrency, mainVars, ch, msgsClosed, delivVars, semaphore, wg,
                   ctxDone>>

\* case <-c.context.Done(): close(done).
CleanupOnCancel_NoClose ==
    /\ cpc = "select"
    /\ ctxDone
    /\ cpc' = "exited"
    /\ UNCHANGED <<webVars, gcpVars, client, prodVars, concurrency, mainVars, chanVars, delivVars, semaphore, wg,
                   done, shutdownErr, ctxDone>>
CleanupOnCancel ==
    /\ cpc = "select"
    /\ ctxDone
    /\ done' = TRUE
    /\ cpc' = "exited"
    /\ UNCHANGED <<webVars, gcpVars, client, prodVars, concurrency, mainVars, chanVars, delivVars, semaphore, wg,
                   shutdownErr, ctxDone>>

-----------------------------------------------------------------------------
(* Consume: the message processing loop (queueconsumer.go:102-125)         *)

\* case <-done: leave the loop for wg.Wait().
LoopObserveDone ==
    /\ pc = "loop"
    /\ done
    /\ pc' = "waitDone"
    /\ UNCHANGED <<webVars, gcpVars, client, prodVars, concurrency, via, ret, chanVars, delivVars, syncVars, ctxDone>>

\* case msg, ok := <-msgs with ok: an empty body is acked in the loop, any
\* other delivery gets its own HandleMessage goroutine.
LoopReadDelivery_WhileDraining ==
    /\ pc \in {"loop", "waitDone"}
    /\ ~msgsClosed
    /\ nread < MaxDeliveries
    /\ \E b \in {"empty", "data"} :
         LET d == nread + 1 IN
           /\ nread' = d
           /\ body' = [body EXCEPT ![d] = b]
           /\ IF b = "empty"
                THEN /\ acks' = [acks EXCEPT ![d] = @ + 1]
                     /\ st' = [st EXCEPT ![d] = "emptyAcked"]
                ELSE /\ acks' = acks
                     /\ st' = [st EXCEPT ![d] = "spawned"]
    /\ UNCHANGED <<webVars, gcpVars, client, prodVars, concurrency, mainVars, chanVars, outcome, nacks, requeue,
                   syncVars, ctxDone>>
LoopReadDelivery_NoEmptyCheck ==
    /\ pc = "loop"
    /\ ~msgsClosed
    /\ nread < MaxDeliveries
    /\ \E b \in {"empty", "data"} :
         LET d == nread + 1 IN
           /\ nread' = d
           /\ body' = [body EXCEPT ![d] = b]
           /\ acks' = acks
           /\ st' = [st EXCEPT ![d] = "spawned"]
    /\ UNCHANGED <<webVars, gcpVars, client, prodVars, concurrency, mainVars, chanVars, outcome, nacks, requeue,
                   syncVars, ctxDone>>
LoopReadDelivery_NoAckEmpty ==
    /\ pc = "loop"
    /\ ~msgsClosed
    /\ nread < MaxDeliveries
    /\ \E b \in {"empty", "data"} :
         LET d == nread + 1 IN
           /\ nread' = d
           /\ body' = [body EXCEPT ![d] = b]
           /\ IF b = "empty"
                THEN /\ acks' = acks
                     /\ st' = [st EXCEPT ![d] = "emptyAcked"]
                ELSE /\ acks' = acks
                     /\ st' = [st EXCEPT ![d] = "spawned"]
    /\ UNCHANGED <<webVars, gcpVars, client, prodVars, concurrency, mainVars, chanVars, outcome, nacks, requeue,
                   syncVars, ctxDone>>
LoopReadDelivery ==
    /\ pc = "loop"
    /\ ~msgsClosed
    /\ nread < MaxDeliveries
    /\ \E b \in {"empty", "data"} :
         LET d == nread + 1 IN
           /\ nread' = d
           /\ body' = [body EXCEPT ![d] = b]
           /\ IF b = "empty"
                THEN /\ acks' = [acks EXCEPT ![d] = @ + 1]
                     /\ st' = [st EXCEPT ![d] = "emptyAcked"]
                ELSE /\ acks' = acks
                     /\ st' = [st EXCEPT ![d] = "spawned"]
    /\ UNCHANGED <<webVars, gcpVars, client, prodVars, concurrency, mainVars, chanVars, outcome, nacks, requeue,
                   syncVars, ctxDone>>

\* Mutant: the loop leaves on the msgs case without looking at ok.
LoopStreamClosed_NoOkCheck ==
    /\ pc = "loop"
    /\ pc' = "waitEos"
    /\ UNCHANGED <<webVars, gcpVars, client, prodVars, concurrency, via, ret, chanVars, delivVars, syncVars, ctxDone>>

\* case msg, ok := <-msgs with !ok: leave the loop for wg.Wait().
LoopStreamClosed ==
    /\ pc = "loop"
    /\ msgsClosed
    /\ pc' = "waitEos"
    /\ UNCHANGED <<webVars, gcpVars, client, prodVars, concurrency, via, ret, chanVars, delivVars, syncVars, ctxDone>>

\* lines 106-108: wg.Wait() returns once the counter is zero; return shutdownErr.
\* The wait, the return and the deferred ch.Close() are one step: nothing
\* synchronises with the Consume goroutine between them.
WaitDoneReturn ==
    /\ pc = "waitDone"
    /\ wg = 0
    /\ pc' = "returned"
    /\ via' = "done"
    /\ ret' = shutdownErr
    /\ DeferredClose
    /\ UNCHANGED <<webVars, gcpVars, client, prodVars, concurrency, delivVars, syncVars, ctxDone>>

\* lines 114-115: wg.Wait() returns once the counter is zero; return nil.
WaitEosReturn ==
    /\ pc = "waitEos"
    /\ wg = 0
    /\ pc' = "returned"
    /\ via' = "eos"
    /\ ret' = "nil"
    /\ DeferredClose
    /\ UNCHANGED <<webVars, gcpVars, client, prodVars, concurrency, delivVars, syncVars, ctxDone>>

-----------------------------------------------------------------------------
(* HandleMessage, one goroutine per dispatched delivery                    *)
(* (queueconsumer.go:128-153)                                              *)

\* The buffered channel semaphore accepts a send while it holds fewer than
\* cap(semaphore) = concurrency tokens.
SemaphoreHasRoom_Unbounded == TRUE
SemaphoreHasRoom == semaphore < concurrency

\* semaphore <- struct{}{}
Acquire(d) ==
    /\ st[d] = "spawned"
    /\ SemaphoreHasRoom
    /\ semaphore' = semaphore + 1
    /\ st' = [st EXCEPT ![d] = "acquired"]
    /\ UNCHANGED <<webVars, gcpVars, client, prodVars, concurrency, mainVars, chanVars, nread, body, outcome, acks,
                   nacks, requeue, wg, done, shutdownErr, cpc, ctxDone>>

\* wg.Add(1), the three defers, and the call of c.handler.HandleMessage.
EnterHandler(d) ==
    /\ st[d] = "acquired"
    /\ wg' = wg + 1
    /\ st' = [st EXCEPT ![d] = "handling"]
    /\ UNCHANGED <<webVars, gcpVars, client, prodVars, concurrency, mainVars, chanVars, nread, body, outcome, acks,
                   nacks, requeue, semaphore, done, shutdownErr, cpc, ctxDone>>

\* What lines 134-152 do with the handler's outcome: the Ack and Nack calls
\* made, the requeue argument, and whether a panic leaves the goroutine.
\*   nil   -> msg.Ack(false)
\*   err   -> msg.Nack(false, true); return
\*   panic -> recover() in the deferred function, msg.Nack(false, true)
Resolution_NoReturn(o) ==
    CASE o = "nil" -> [ack |-> 1, nack |-> 0, requeue |-> FALSE, crash |-> FALSE]
      [] o = "err" -> [ack |-> 1, nack |-> 1, requeue |-> TRUE, crash |-> FALSE]
      [] o = "panic" -> [ack |-> 0, nack |-> 1, requeue |-> TRUE, crash |-> FALSE]
Resolution_NoRequeue(o) ==
    CASE o = "nil" -> [ack |-> 1, nack |-> 0, requeue |-> FALSE, crash |-> FALSE]
      [] o = "err" -> [ack |-> 0, nack |-> 1, requeue |-> FALSE, crash |-> FALSE]
      [] o = "panic" -> [ack |-> 0, nack |-> 1, requeue |-> TRUE, crash |-> FALSE]
Resolution_NoRecover(o) ==
    CASE o = "nil" -> [ack |-> 1, nack |-> 0, requeue |-> FALSE, crash |-> FALSE]
      [] o = "err" -> [ack |-> 0, nack |-> 1, requeue |-> TRUE, crash |-> FALSE]
      [] o = "panic" -> [ack |-> 0, nack |-> 0, requeue |-> FALSE, crash |-> TRUE]
Resolution(o) ==
    CASE o = "nil" -> [ack |-> 1, nack |-> 0, requeue |-> FALSE, crash |-> FALSE]
      [] o = "err" -> [ack |-> 0, nack |-> 1, requeue |-> TRUE, crash |-> FALSE]
      [] o = "panic" -> [ack |-> 0, nack |-> 1, requeue |-> TRUE, crash |-> FALSE]

\* c.handler.HandleMessage returns nil, returns an error or panics, and the
\* goroutine makes the Ack or Nack call of lines 139, 147, 152.  A panic that
\* is not recovered terminates the process and with it every goroutine.
HandlerEnds(d) ==
    /\ st[d] = "handling"
    /\ \E o \in Outcomes :
         LET r == Resolution(o) IN
           /\ outcome' = [outcome EXCEPT ![d] = o]
           /\ acks' = [acks EXCEPT ![d] = @ + r.ack]
           /\ nacks' = [nacks EXCEPT ![d] = @ + r.nack]
           /\ requeue' = [requeue EXCEPT ![d] = r.requeue]
           /\ IF r.crash
                THEN /\ pc' = "crashed"
                     /\ cpc' = "killed"
                     /\ st' = [e \in Deliveries |->
                                 IF st[e] \in {"unread", "emptyAcked", "finished"}
                                   THEN st[e] ELSE "killed"]
                ELSE /\ pc' = pc
                     /\ cpc' = cpc
                     /\ st' = [st EXCEPT ![d] = "resolved"]
    /\ UNCHANGED <<webVars, gcpVars, client, prodVars, concurrency, via, ret, chanVars, nread, body, semaphore, wg,
                   done, shutdownErr, ctxDone>>

\* The deferred functions of lines 132-133, in their order of execution:
\* <-semaphore, then wg.Done().
Release_LeakOnPanic(d) ==
    /\ st[d] = "resolved"
    /\ semaphore' = IF outcome[d] = "panic" THEN semaphore ELSE semaphore - 1
    /\ wg' = wg - 1
    /\ st' = [st EXCEPT ![d] = "finished"]
    /\ UNCHANGED <<webVars, gcpVars, client, prodVars, concurrency, mainVars, chanVars, nread, body, outcome, acks,
                   nacks, requeue, done, shutdownErr, cpc, ctxDone>>
Release_BeforeResolve(d) ==
    /\ st[d] \in {"handling", "resolved"}
    /\ semaphore' = semaphore - 1
    /\ wg' = wg - 1
    /\ st' = [st EXCEPT ![d] = "finished"]
    /\ UNCHANGED <<webVars, gcpVars, client, prodVars, concurrency, mainVars, chanVars, nread, body, outcome, acks,
                   nacks, requeue, done, shutdownErr, cpc, ctxDone>>
Release(d) ==
    /\ st[d] = "resolved"
    /\ semaphore' = semaphore - 1
    /\ wg' = wg - 1
    /\ st' = [st EXCEPT ![d] = "finished"]
    /\ UNCHANGED <<webVars, gcpVars, client, prodVars, concurrency, mainVars, chanVars, nread, body, outcome, acks,
                   nacks, requeue, done, shutdownErr, cpc, ctxDone>>

-----------------------------------------------------------------------------
\* The steps of the Consume goroutine and of one HandleMessage goroutine.
ConsumeStep ==
    \/ OpenChannel
    \/ OpenChannelFails
    \/ SetupStep
    \/ SetupFails
    \/ LoopObserveDone
    \/ LoopReadDelivery
    \/ LoopStreamClosed
    \/ WaitDoneReturn
    \/ WaitEosReturn

HandleMessage(d) ==
    \/ Acquire(d)
    \/ EnterHandler(d)
    \/ HandlerEnds(d)
    \/ Release(d)

Next ==
    \/ OpenChannel
    \/ OpenChannelFails
    \/ SetupStep
    \/ SetupFails
    \/ LoopObserveDone
    \/ LoopReadDelivery
    \/ LoopStreamClosed
    \/ WaitDoneReturn
    \/ WaitEosReturn
    \/ CleanupOnClose
    \/ CleanupOnCancel
    \/ \E d \in Deliveries : Acquire(d)
    \/ \E d \in Deliveries : EnterHandler(d)
    \/ \E d \in Deliveries : HandlerEnds(d)
    \/ \E d \in Deliveries : Release(d)
    \/ CancelContext
    \/ ChannelClosedWithError
    \/ ChannelClosedGracefully
    \/ StreamCloses

Spec == Init /\ [][Next]_vars

\* The Go scheduler runs every runnable goroutine, and a select with a ready
\* case is taken (among several ready cases Go chooses at random, so a case
\* that stays ready is taken eventually); the handler is assumed to
\* terminate.  The environment is under no obligation.
Fairness ==
    /\ WF_vars(ConsumeStep)
    /\ WF_vars(CleanupOnClose \/ CleanupOnCancel)
    /\ \A d \in Deliveries : WF_vars(HandleMessage(d))

FairSpec == Spec /\ Fairness

-----------------------------------------------------------------------------
(* Properties of Consume / HandleMessage                                   *)

\* Handler invocations between entering and leaving handler.HandleMessage.
InFlight == {d \in Deliveries : st[d] = "handling"}
\* Deliveries handed to a HandleMessage goroutine by the loop.
Dispatched == {d \in Deliveries : st[d] \notin {"unread", "emptyAcked"}}
\* Ack or Nack has been called for the delivery.
IsResolved(d) == acks[d] + nacks[d] >= 1
\* Consume left through one of the two exits of the processing loop.
ReturnedFromLoop == pc = "returned" /\ via \in {"done", "eos"}

\* C1: for every concurrency limit N >= 1, the number of handler invocations
\* in flight at the same time never exceeds N.
C1_BoundedInFlight == concurrency >= 1 => Cardinality(InFlight) <= concurrency

\* The pool is full and a further dispatched delivery waits for a token.
C1_Witness ==
    /\ concurrency >= 1
    /\ Cardinality(InFlight) = concurrency
    /\ \E d \in Deliveries : st[d] = "spawned"

\* C2: when Consume returns from its processing loop, every delivery it
\* dispatched has been acked or nacked and no handler is pending or running.
C2_DrainedAtReturn ==
    (concurrency >= 1 /\ ReturnedFromLoop) => \A d \in Dispatched : IsResolved(d)

\* C3: for each delivery at most one call among Ack and Nack is made, at most
\* once, on the success, error-return and panic paths alike.
C3_ResolvedAtMostOnce == \A d \in Deliveries : acks[d] + nacks[d] <= 1

\* The error-return path and the panic path have both been taken (the success
\* path is in C4_Witness), and each delivery was resolved by one Nack.
C3_Witness ==
    \E d, e \in Deliveries :
        /\ outcome[d] = "err" /\ acks[d] + nacks[d] = 1
        /\ outcome[e] = "panic" /\ acks[e] + nacks[e] = 1

\* C4: a non-empty delivery is acknowledged if and only if the handler
\* returned nil, and rejected with requeue if the handler returned an error.
C4_ResolutionFollowsOutcome ==
    \A d \in Deliveries :
        (body[d] = "data" /\ st[d] \in {"resolved", "finished"}) =>
            /\ acks[d] = 1 <=> outcome[d] = "nil"
            /\ outcome[d] = "err" => (nacks[d] = 1 /\ requeue[d])

\* One delivery acked after a nil return, another nacked after an error.
C4_Witness ==
    \E d, e \in Deliveries :
        /\ outcome[d] = "nil" /\ acks[d] = 1 /\ nacks[d] = 0
        /\ outcome[e] = "err" /\ nacks[e] = 1 /\ acks[e] = 0 /\ requeue[e]

\* C5: a panicking handler invocation is recovered: its delivery is nacked
\* with requeue, Consume and the other deliveries are left untouched by that
\* step, the process never crashes, and every delivery dispatched once a
\* panic has happened is still resolved.
C5_PanicStep ==
    \A d \in Deliveries :
        (st[d] = "handling" /\ outcome'[d] = "panic") =>
            /\ nacks'[d] = 1 /\ acks'[d] = 0 /\ requeue'[d]
            /\ UNCHANGED <<mainVars, chanVars, syncVars, nread, body>>
            /\ \A e \in Deliveries \ {d} :
                   /\ st'[e] = st[e]
                   /\ outcome'[e] = outcome[e]
                   /\ acks'[e] = acks[e]
                   /\ nacks'[e] = nacks[e]
C5_PanicIsolated ==
    /\ [][C5_PanicStep]_vars
    /\ [](concurrency >= 1 => pc # "crashed")
    /\ \A e \in Deliveries :
           ((\E d \in Deliveries : outcome[d] = "panic") /\ st[e] = "spawned")
               ~> IsResolved(e)

\* With one token: a delivery panicked and left the pool, a later delivery
\* then went through the pool and was resolved, and Consume is still looping.
C5_Witness ==
    \E d, e \in Deliveries :
        /\ d < e
        /\ concurrency = 1
        /\ outcome[d] = "panic" /\ st[d] = "finished" /\ nacks[d] = 1
        /\ st[e] = "resolved"
        /\ pc = "loop"

\* C6: if the broker closes the channel with an error while Consume is
\* running, Consume returns a non-nil error.
C6_ErrorOnChannelError ==
    (pc = "returned" /\ ch = "closedByError") => ret # "nil"

\* C7: if the delivery stream closes without a cancellation signal, Consume
\* returns a failure, not success.
C7_ErrorOnStreamEnd ==
    (pc = "returned" /\ via = "eos" /\ ~ctxDone) => ret # "nil"

\* C8: once the context is cancelled while Consume is in its processing
\* loop, Consume eventually returns, and it returns nil unless the channel
\* was closed with an error.
C8_GracefulStop ==
    (ctxDone /\ pc \in {"loop", "waitDone", "waitEos"})
        ~> (pc = "returned" /\ (ch # "closedByError" => ret = "nil"))

\* Consume returned nil through the done branch after a cancellation, and a
\* handler invocation had run to its end.
C8_Witness ==
    /\ pc = "returned" /\ via = "done" /\ ret = "nil"
    /\ ctxDone /\ ch = "closed" /\ closeChan = "closed" /\ shutdownErr = "nil"
    /\ \E d \in Deliveries : st[d] = "finished"

\* The loop has taken the done branch.
DoneObserved == pc = "waitDone" \/ (pc = "returned" /\ via = "done")
\* A HandleMessage goroutine stays where it is or moves to its next position.
HandlerAdvances(d) ==
    \/ st'[d] = st[d]
    \/ st[d] = "spawned" /\ st'[d] = "acquired"
    \/ st[d] = "acquired" /\ st'[d] = "handling"
    \/ st[d] = "handling" /\ st'[d] = "resolved" /\ acks'[d] + nacks'[d] = 1
    \/ st[d] = "resolved" /\ st'[d] = "finished"

C10_NoDispatchAfterCancel ==
    [][ctxDone => Dispatched' = Dispatched]_vars

-----------------------------------------------------------------------------
(* Properties of the dispatch loop and of the token                        *)

\* Deliveries whose goroutine holds a token: after the send on semaphore and
\* before the deferred receive.
TokenHolders == {d \in Deliveries : st[d] \in {"acquired", "handling", "resolved"}}
\* Deliveries whose goroutine has taken a token at some time.
Admitted == {d \in Deliveries : st[d] \in {"acquired", "handling", "resolved", "finished"}}
\* Deliveries for which handler.HandleMessage has been called.
Invoked == {d \in Deliveries : st[d] \in {"handling", "resolved", "finished"}}
\* Every delivery read so far has gone all the way through.
AllProcessed == \A d \in Deliveries : st[d] \in {"unread", "emptyAcked", "finished"}

RECURSIVE SumTo(_, _)
SumTo(f, n) == IF n = 0 THEN 0 ELSE f[n] + SumTo(f, n - 1)
\* Number of calls counted in f over all deliveries.
Total(f) == SumTo(f, MaxDeliveries)

\* C11: an empty delivery is acknowledged by the loop and never reaches the
\* handler: it is acked once, takes no token, only non-empty deliveries are
\* dispatched, and once all is processed the invoked deliveries are exactly
\* the non-empty ones.
C11_EmptyAckedInLoop ==
    /\ \A d \in Deliveries :
           body[d] = "empty" =>
               /\ st[d] = "emptyAcked"
               /\ acks[d] = 1 /\ nacks[d] = 0 /\ outcome[d] = "none"
               /\ d \notin TokenHolders
    /\ Dispatched = {d \in Deliveries : body[d] = "data"}
    /\ Invoked \subseteq Dispatched
    /\ (concurrency >= 1 /\ AllProcessed) =>
           Invoked = {d \in Deliveries : body[d] = "data"}

\* An empty delivery has been acked while a handler runs for another one.
C11_Witness ==
    \E d, e \in Deliveries :
        /\ body[d] = "empty" /\ acks[d] = 1
        /\ st[e] = "handling"

\* C12: Consume called with concurrency < 1 returns an invalid-argument error
\* at once: no channel is opened, nothing is read, no handler is invoked.
C12_InvalidConcurrencyRejected ==
    concurrency < 1 =>
        /\ ch = "none"
        /\ nread = 0
        /\ Invoked = {}
        /\ pc \in {"start", "returned"}
        /\ pc = "returned" => ret = "errInvalidArgument"

\* C13: the tokens in the semaphore are exactly those of the invocations
\* between acquire and release, so the pool is back at full capacity when
\* every dispatched invocation has finished, whatever its exit path.
C13_TokensMatchHolders ==
    /\ semaphore = Cardinality(TokenHolders)
    /\ (\A d \in Dispatched : st[d] = "finished") => semaphore = 0

\* Two invocations have finished, one by a panic and one by an error return,
\* and no token is left in the semaphore.
C13_Witness ==
    /\ \E d, e \in Deliveries :
           /\ outcome[d] = "panic" /\ st[d] = "finished"
           /\ outcome[e] = "err" /\ st[e] = "finished"
    /\ semaphore = 0

\* C14: per dispatched delivery the token is acquired first, the handler is
\* invoked with the token held, the Ack or Nack follows the handler, and the
\* token is given back only after the delivery has been resolved.
C14_Step(d) ==
    /\ (st'[d] = "acquired" /\ st[d] # "acquired") =>
           (st[d] = "spawned" /\ semaphore' = semaphore + 1)
    /\ (st'[d] = "handling" /\ st[d] # "handling") => d \in TokenHolders
    /\ (body[d] = "data" /\ acks'[d] + nacks'[d] > acks[d] + nacks[d]) =>
           (st[d] = "handling" /\ d \in TokenHolders')
    /\ (d \in TokenHolders /\ d \notin TokenHolders') =>
           (IsResolved(d) /\ semaphore' = semaphore - 1)
C14_TokenOrder == [][\A d \in Deliveries : C14_Step(d)]_vars

\* An invocation that panicked has been nacked and has then given its token back.
C14_Witness ==
    \E d \in Deliveries :
        /\ outcome[d] = "panic" /\ nacks[d] = 1
        /\ st[d] = "finished" /\ semaphore = 0

\* C15: deliveries take their tokens in stream order: a delivery has been
\* admitted only if every non-empty delivery read before it has been.
C15_AdmittedInStreamOrder ==
    concurrency >= 1 =>
        \A d, e \in Deliveries :
            (d < e /\ body[d] = "data" /\ e \in Admitted) => d \in Admitted

\* C16: when every delivery read has been processed, the acknowledgments are
\* those of the nil returns and of the empty deliveries, and the rejects,
\* all with requeue, are those of the error returns and panics.
C16_AckNackCounts ==
    AllProcessed =>
        /\ Total(acks) = Cardinality({d \in Deliveries : outcome[d] = "nil"})
                           + Cardinality({d \in Deliveries : body[d] = "empty"})
        /\ Total(nacks) = Cardinality({d \in Deliveries : outcome[d] \in {"err", "panic"}})
        /\ \A d \in Deliveries : nacks[d] > 0 => requeue[d]

\* The whole stream has been processed: an empty delivery acked by the loop
\* and a delivery nacked after its handler failed.
C16_Witness ==
    /\ nread = MaxDeliveries
    /\ AllProcessed
    /\ \E d \in Deliveries : body[d] = "empty"
    /\ \E d \in Deliveries : outcome[d] \in {"err", "panic"} /\ nacks[d] = 1

-----------------------------------------------------------------------------
(* The producer: Publish, reconnect, Close, monitorChannel                 *)
(* (queueproducer.go:64-170)                                               *)
(*                                                                         *)
(* Callers are goroutines that call Publish and Close on one producer.     *)
(* A declare or a send fails exactly when the channel it is made on is     *)
(* closed; the broker and the network close channels and the connection    *)
(* at any moment, and a closed connection has no open channel.             *)

\* The record of a call that ends with result r.
Fin(rec, r) == [rec EXCEPT !.pc = "idle", !.result = r]

\* p.mu.Lock() goes through when nobody holds the mutex.
MutexFree_NoLock == TRUE
MutexFree == mu = 0

\* Publish with an empty queue name, a nil body or a body json.Marshal
\* rejects (lines 65-76): the error is returned before p.mu.Lock().
PublishInvalid_AfterCheck(c) ==
    /\ call[c].pc = "idle"
    /\ ncalls < MaxCalls
    /\ ncalls' = ncalls + 1
    /\ MutexFree
    /\ \E e \in {"errEmptyQueue", "errNilBody", "errMarshal"} :
         call' = [call EXCEPT ![c] = [NoCall EXCEPT !.op = "publish", !.result = e]]
    /\ IF chs[pch] # "open" /\ conn = "open" /\ nch < MaxChannels
         THEN /\ nch' = nch + 1
              /\ chs' = [chs EXCEPT ![nch + 1] = "open"]
              /\ pch' = nch + 1
              /\ mon' = [mon EXCEPT ![nch + 1] = "start"]
         ELSE UNCHANGED <<chs, nch, pch, mon>>
    /\ UNCHANGED <<webVars, gcpVars, consVars, client, ctxDone, conn, mu, watch>>
PublishInvalid(c) ==
    /\ call[c].pc = "idle"
    /\ ncalls < MaxCalls
    /\ ncalls' = ncalls + 1
    /\ \E e \in {"errEmptyQueue", "errNilBody", "errMarshal"} :
         call' = [call EXCEPT ![c] = [NoCall EXCEPT !.op = "publish", !.result = e]]
    /\ UNCHANGED <<webVars, gcpVars, consVars, client, ctxDone, conn, chs, nch, pch, mu, mon, watch>>

\* Publish with valid arguments: the body is marshalled and the caller comes
\* to p.mu.Lock() (lines 65-78).
PublishBegin(c) ==
    /\ call[c].pc = "idle"
    /\ ncalls < MaxCalls
    /\ ncalls' = ncalls + 1
    /\ call' = [call EXCEPT ![c] = [NoCall EXCEPT !.op = "publish", !.pc = "lock"]]
    /\ UNCHANGED <<webVars, gcpVars, consVars, client, ctxDone, conn, chs, nch, pch, mu, mon, watch>>

\* reconnect (lines 136-149), called by Publish with p.mu held, for caller c
\* that found p.ch closed: refuse when the connection is closed; else
\* conn.Channel() either fails or yields a new channel, which is stored in
\* p.ch and gets a monitor goroutine.  The connection opens no channel beyond
\* its channel-max.  A failure makes Publish return and unlock.
Reconnect_NoAssign(c) ==
    LET me == [call[c] EXCEPT !.found = TRUE] IN
    IF conn = "closed"
      THEN /\ call' = [call EXCEPT ![c] = Fin(me, "errConnClosed")]
           /\ mu' = 0
           /\ UNCHANGED <<chs, nch, pch, mon>>
      ELSE \/ /\ call' = [call EXCEPT ![c] =
                            Fin([me EXCEPT !.opens = @ + 1], "errOpenChannel")]
              /\ mu' = 0
              /\ UNCHANGED <<chs, nch, pch, mon>>
           \/ /\ nch < MaxChannels
              /\ nch' = nch + 1
              /\ chs' = [chs EXCEPT ![nch + 1] = "open"]
              /\ pch' = pch
              /\ mon' = [mon EXCEPT ![nch + 1] = "start"]
              /\ mu' = c
              /\ call' = [call EXCEPT ![c] =
                            [me EXCEPT !.pc = "declare", !.opens = @ + 1,
                                       !.newCh = nch + 1]]
Reconnect_NoConnCheck(c) ==
    LET me == [call[c] EXCEPT !.found = TRUE] IN
    \/ /\ call' = [call EXCEPT ![c] =
                     Fin([me EXCEPT !.opens = @ + 1], "errOpenChannel")]
       /\ mu' = 0
       /\ UNCHANGED <<chs, nch, pch, mon>>
    \/ /\ conn = "open"
       /\ nch < MaxChannels
       /\ nch' = nch + 1
       /\ chs' = [chs EXCEPT ![nch + 1] = "open"]
       /\ pch' = nch + 1
       /\ mon' = [mon EXCEPT ![nch + 1] = "start"]
       /\ mu' = c
       /\ call' = [call EXCEPT ![c] =
                     [me EXCEPT !.pc = "declare", !.opens = @ + 1,
                                !.newCh = nch + 1]]
Reconnect_OnClosedConn(c) ==
    LET me == [call[c] EXCEPT !.found = TRUE] IN
    \/ /\ call' = [call EXCEPT ![c] =
                     Fin([me EXCEPT !.opens = @ + 1], "errOpenChannel")]
       /\ mu' = 0
       /\ UNCHANGED <<chs, nch, pch, mon>>
    \/ /\ nch < MaxChannels
       /\ nch' = nch + 1
       /\ chs' = [chs EXCEPT ![nch + 1] = "open"]
       /\ pch' = nch + 1
       /\ mon' = [mon EXCEPT ![nch + 1] = "start"]
       /\ mu' = c
       /\ call' = [call EXCEPT ![c] =
                     [me EXCEPT !.pc = "declare", !.opens = @ + 1,
                                !.newCh = nch + 1]]

\* Mutant: a failed open is attempted a second time.
Reconnect_RetryOpen(c) ==
    LET me == [call[c] EXCEPT !.found = TRUE] IN
    IF conn = "closed"
      THEN /\ call' = [call EXCEPT ![c] = Fin(me, "errConnClosed")]
           /\ mu' = 0
           /\ UNCHANGED <<chs, nch, pch, mon>>
      ELSE \/ /\ call' = [call EXCEPT ![c] =
                            Fin([me EXCEPT !.opens = @ + 2], "errOpenChannel")]
              /\ mu' = 0
              /\ UNCHANGED <<chs, nch, pch, mon>>
           \/ /\ nch < MaxChannels
              /\ nch' = nch + 1
              /\ chs' = [chs EXCEPT ![nch + 1] = "open"]
              /\ pch' = nch + 1
              /\ mon' = [mon EXCEPT ![nch + 1] = "start"]
              /\ mu' = c
              /\ call' = [call EXCEPT ![c] =
                            [me EXCEPT !.pc = "declare", !.opens = @ + 1,
                                       !.newCh = nch + 1]]
Reconnect(c) ==
    LET me == [call[c] EXCEPT !.found = TRUE] IN
    IF conn = "closed"
      THEN /\ call' = [call EXCEPT ![c] = Fin(me, "errConnClosed")]
           /\ mu' = 0
           /\ UNCHANGED <<chs, nch, pch, mon>>
      ELSE \/ /\ call' = [call EXCEPT ![c] =
                            Fin([me EXCEPT !.opens = @ + 1], "errOpenChannel")]
              /\ mu' = 0
              /\ UNCHANGED <<chs, nch, pch, mon>>
           \/ /\ nch < MaxChannels
              /\ nch' = nch + 1
              /\ chs' = [chs EXCEPT ![nch + 1] = "open"]
              /\ pch' = nch + 1
              /\ mon' = [mon EXCEPT ![nch + 1] = "start"]
              /\ mu' = c
              /\ call' = [call EXCEPT ![c] =
                            [me EXCEPT !.pc = "declare", !.opens = @ + 1,
                                       !.newCh = nch + 1]]

\* Mutant: every Publish reconnects, whatever the state of p.ch.
PublishLock_AlwaysReconnect(c) ==
    /\ call[c].pc = "lock"
    /\ MutexFree
    /\ Reconnect(c)
    /\ UNCHANGED <<webVars, gcpVars, consVars, client, ctxDone, conn, ncalls, watch>>

\* p.mu.Lock() and the check of lines 82-87: with p.ch closed, reconnect;
\* with p.ch open, go on to the declare.
PublishLock(c) ==
    /\ call[c].pc = "lock"
    /\ MutexFree
    /\ IF chs[pch] # "open"
         THEN Reconnect(c)
         ELSE /\ mu' = c
              /\ call' = [call EXCEPT ![c].pc = "declare"]
              /\ UNCHANGED <<chs, nch, pch, mon>>
    /\ UNCHANGED <<webVars, gcpVars, consVars, client, ctxDone, conn, ncalls, watch>>

\* p.ch.QueueDeclare (lines 90-100); on an error Publish returns and unlocks.
PublishDeclare_IgnoreError(c) ==
    /\ call[c].pc = "declare"
    /\ IF chs[pch] = "open"
         THEN call' = [call EXCEPT ![c].pc = "send", ![c].declCh = pch]
         ELSE call' = [call EXCEPT ![c].pc = "send"]
    /\ mu' = mu
    /\ UNCHANGED <<webVars, gcpVars, consVars, client, ctxDone, conn, chs, nch, pch, ncalls, mon, watch>>
PublishDeclare(c) ==
    /\ call[c].pc = "declare"
    /\ IF chs[pch] = "open"
         THEN /\ call' = [call EXCEPT ![c].pc = "send", ![c].declCh = pch]
              /\ mu' = mu
         ELSE /\ call' = [call EXCEPT ![c] = Fin(call[c], "errDeclare")]
              /\ mu' = 0
    /\ UNCHANGED <<webVars, gcpVars, consVars, client, ctxDone, conn, chs, nch, pch, ncalls, mon, watch>>

\* p.ch.PublishWithContext (lines 102-119), the return and the unlock.
PublishSend(c) ==
    /\ call[c].pc = "send"
    /\ IF chs[pch] = "open"
         THEN call' = [call EXCEPT ![c] = Fin([call[c] EXCEPT !.sendCh = pch], "nil")]
         ELSE call' = [call EXCEPT ![c] = Fin(call[c], "errPublish")]
    /\ mu' = 0
    /\ UNCHANGED <<webVars, gcpVars, consVars, client, ctxDone, conn, chs, nch, pch, ncalls, mon, watch>>

\* Close is called and comes to p.mu.Lock() (line 125).
CloseBegin(c) ==
    /\ call[c].pc = "idle"
    /\ ncalls < MaxCalls
    /\ ncalls' = ncalls + 1
    /\ call' = [call EXCEPT ![c] = [NoCall EXCEPT !.op = "close", !.pc = "lockClose"]]
    /\ UNCHANGED <<webVars, gcpVars, consVars, client, ctxDone, conn, chs, nch, pch, mu, mon, watch>>

\* p.mu.Lock() in Close.
CloseLock(c) ==
    /\ call[c].pc = "lockClose"
    /\ MutexFree
    /\ mu' = c
    /\ call' = [call EXCEPT ![c].pc = "closing"]
    /\ UNCHANGED <<webVars, gcpVars, consVars, client, ctxDone, conn, chs, nch, pch, ncalls, mon, watch>>

\* Mutant: Close retires the producer by closing its connection as well.
CloseChannel_ClosesConnection(c) ==
    /\ call[c].pc = "closing"
    /\ chs' = [k \in Channels |-> IF chs[k] = "open" THEN "closed" ELSE chs[k]]
    /\ conn' = "closed"
    /\ call' = [call EXCEPT ![c] = Fin(call[c], "nil")]
    /\ mu' = 0
    /\ UNCHANGED <<webVars, gcpVars, consVars, client, ctxDone, nch, pch, ncalls, mon, watch>>

\* return p.ch.Close() and the unlock (lines 128-131); p.ch is never nil once
\* NewProducer has returned.  What Close answers on a channel that is closed
\* already is the library's choice: nil or its closed error.
CloseChannel(c) ==
    /\ call[c].pc = "closing"
    /\ IF chs[pch] = "open"
         THEN /\ chs' = [chs EXCEPT ![pch] = "closed"]
              /\ call' = [call EXCEPT ![c] = Fin(call[c], "nil")]
         ELSE /\ chs' = chs
              /\ \E r \in {"nil", "errClosed"} :
                   call' = [call EXCEPT ![c] = Fin(call[c], r)]
    /\ mu' = 0
    /\ UNCHANGED <<webVars, gcpVars, consVars, client, ctxDone, conn, nch, pch, ncalls, mon, watch>>

\* monitorChannel (lines 152-158): it reads p.ch, without taking p.mu, and
\* registers its closeChan on the channel it read.  The goroutine of channel
\* k starts after p.ch was set to k; its unsynchronised read races with the
\* later writes of reconnect and yields the value of that write or of any
\* later one.
MonitorRegister(k) ==
    /\ mon[k] = "start"
    /\ mon' = [mon EXCEPT ![k] = "watching"]
    /\ \E r \in (k..pch) \cup {pch} : watch' = [watch EXCEPT ![k] = r]
    /\ UNCHANGED <<webVars, gcpVars, consVars, client, ctxDone, conn, chs, nch, pch, mu, ncalls, call>>

\* case err := <-closeChan (lines 161-165): the watched channel is closed.
MonitorChannelClosed(k) ==
    /\ mon[k] = "watching"
    /\ chs[watch[k]] = "closed"
    /\ mon' = [mon EXCEPT ![k] = "exited"]
    /\ UNCHANGED <<webVars, gcpVars, consVars, client, ctxDone, conn, chs, nch, pch, mu, ncalls, call, watch>>

\* case <-p.context.Done() (lines 166-168).
MonitorCancelled_Ignored(k) ==
    /\ mon[k] = "watching"
    /\ ctxDone
    /\ chs[watch[k]] = "closed"
    /\ mon' = [mon EXCEPT ![k] = "exited"]
    /\ UNCHANGED <<webVars, gcpVars, consVars, client, ctxDone, conn, chs, nch, pch, mu, ncalls, call, watch>>
MonitorCancelled(k) ==
    /\ mon[k] = "watching"
    /\ ctxDone
    /\ mon' = [mon EXCEPT ![k] = "exited"]
    /\ UNCHANGED <<webVars, gcpVars, consVars, client, ctxDone, conn, chs, nch, pch, mu, ncalls, call, watch>>

\* The broker or the network closes one of the producer's channels.
BrokerClosesChannel ==
    /\ \E k \in Channels :
         /\ chs[k] = "open"
         /\ chs' = [chs EXCEPT ![k] = "closed"]
    /\ UNCHANGED <<webVars, gcpVars, consVars, client, ctxDone, conn, nch, pch, mu, ncalls, call, mon, watch>>

\* The connection is lost (network issue, broker restart): every channel
\* opened from it is closed with it.
ConnectionCloses ==
    /\ conn = "open"
    /\ conn' = "closed"
    /\ chs' = [k \in Channels |-> IF chs[k] = "open" THEN "closed" ELSE chs[k]]
    /\ UNCHANGED <<webVars, gcpVars, consVars, client, ctxDone, nch, pch, mu, ncalls, call, mon, watch>>

-----------------------------------------------------------------------------
(* The client: NewClient, IsClosed, Close (queueproducer.go:626-663)       *)

\* NewClient's argument checks (lines 630-636): a nil context, then an empty
\* URL, is refused before any dial.
NewClientValidate ==
    /\ client.pc = "new"
    /\ client' = IF client.ctx = "nil"
                   THEN [client EXCEPT !.pc = "failed", !.result = "errNilContext"]
                 ELSE IF client.url = "empty"
                   THEN [client EXCEPT !.pc = "failed", !.result = "errEmptyURL"]
                 ELSE [client EXCEPT !.pc = "dial"]
    /\ UNCHANGED <<webVars, gcpVars, consVars, ctxDone, prodVars>>

\* amqp091.Dial(url) (lines 638-641): one dial; it fails, or, the broker of
\* the URL being reachable, yields an open connection.
NewClientDial_Retry ==
    /\ client.pc = "dial"
    /\ client.dials < 2
    /\ \/ /\ client' = [client EXCEPT !.dials = @ + 1]
          /\ conn' = conn
       \/ /\ client.url = "good"
          /\ client' = [client EXCEPT !.pc = "dialed", !.dials = @ + 1]
          /\ conn' = "open"
    /\ UNCHANGED <<webVars, gcpVars, consVars, ctxDone, chs, nch, pch, mu, ncalls, call, mon, watch>>
NewClientDial ==
    /\ client.pc = "dial"
    /\ \/ /\ client' = [client EXCEPT !.pc = "failed", !.dials = @ + 1,
                                       !.result = "errDial"]
          /\ conn' = conn
       \/ /\ client.url = "good"
          /\ client' = [client EXCEPT !.pc = "dialed", !.dials = @ + 1]
          /\ conn' = "open"
    /\ UNCHANGED <<webVars, gcpVars, consVars, ctxDone, chs, nch, pch, mu, ncalls, call, mon, watch>>

\* if conn.IsClosed() (lines 643-645), then the client is built and returned
\* (647-649).
NewClientCheck ==
    /\ client.pc = "dialed"
    /\ client' = IF conn = "closed"
                   THEN [client EXCEPT !.pc = "failed", !.result = "errConnClosed"]
                   ELSE [client EXCEPT !.pc = "ready", !.result = "nil"]
    /\ UNCHANGED <<webVars, gcpVars, consVars, ctxDone, prodVars>>

\* client.NewProducer (lines 37-53): c.conn.Channel() fails, as it does on a
\* closed connection, or yields the producer's first channel, and the
\* producer's monitor goroutine is started.
NewProducer ==
    /\ client.pc = "ready"
    /\ client.producer = "none"
    /\ \/ /\ client' = [client EXCEPT !.producer = "errOpenChannel"]
          /\ UNCHANGED <<chs, nch, pch, mon>>
       \/ /\ conn = "open"
          /\ client' = [client EXCEPT !.producer = "nil"]
          /\ chs' = [chs EXCEPT ![1] = "open"]
          /\ nch' = 1
          /\ pch' = 1
          /\ mon' = [mon EXCEPT ![1] = "start"]
    /\ UNCHANGED <<webVars, gcpVars, consVars, ctxDone, conn, mu, ncalls, call, watch>>

\* client.IsClosed (lines 652-655) answers c.conn.IsClosed().
ClientIsClosed ==
    /\ client.pc = "ready"
    /\ ncalls < MaxCalls
    /\ ncalls' = ncalls + 1
    /\ client' = [client EXCEPT
                    !.isClosed = IF conn = "closed" THEN "true" ELSE "false"]
    /\ UNCHANGED <<webVars, gcpVars, consVars, ctxDone, conn, chs, nch, pch, mu, call, mon, watch>>

\* client.Close (lines 658-663): c.conn is never nil in a client NewClient
\* returned, so the call is c.conn.Close().  On an open connection it closes
\* the connection and with it every channel; what it answers on a connection
\* that is closed already is the library's: nil or its closed error.
ClientClose ==
    /\ client.pc = "ready"
    /\ ncalls < MaxCalls
    /\ ncalls' = ncalls + 1
    /\ IF conn = "open"
         THEN /\ conn' = "closed"
              /\ chs' = [k \in Channels |->
                           IF chs[k] = "open" THEN "closed" ELSE chs[k]]
              /\ client' = [client EXCEPT !.closes = @ + 1, !.lastClose = "nil"]
         ELSE /\ UNCHANGED <<conn, chs>>
              /\ \E r \in {"nil", "errClosed"} :
                   client' = [client EXCEPT !.closes = @ + 1, !.lastClose = r]
    /\ UNCHANGED <<webVars, gcpVars, consVars, ctxDone, nch, pch, mu, call, mon, watch>>

-----------------------------------------------------------------------------
NextProducer ==
    \/ \E c \in Callers : PublishInvalid(c)
    \/ \E c \in Callers : PublishBegin(c)
    \/ \E c \in Callers : PublishLock(c)
    \/ \E c \in Callers : PublishDeclare(c)
    \/ \E c \in Callers : PublishSend(c)
    \/ \E c \in Callers : CloseBegin(c)
    \/ \E c \in Callers : CloseLock(c)
    \/ \E c \in Callers : CloseChannel(c)
    \/ \E k \in Channels : MonitorRegister(k)
    \/ \E k \in Channels : MonitorChannelClosed(k)
    \/ \E k \in Channels : MonitorCancelled(k)
    \/ BrokerClosesChannel
    \/ ConnectionCloses
    \/ ClientClose
    \/ CancelContext

\* One monitorChannel goroutine, the observer started for channel k.
Monitor(k) == MonitorRegister(k) \/ MonitorChannelClosed(k) \/ MonitorCancelled(k)

\* The Go scheduler runs every goroutine that can take a step: an observer
\* that can register or whose select has a ready case goes on.
FairnessProducer == \A k \in Channels : WF_vars(Monitor(k))

\* The producer right after NewProducer; no Consume call is under way.
InitProducer == Init /\ concurrency = 1

SpecProducer == InitProducer /\ [][NextProducer]_vars

FairSpecProducer == SpecProducer /\ FairnessProducer

\* The arguments of a NewClient call: the context is nil or given (and then
\* live or cancelled already); the URL is empty, names no reachable broker, or is good.
Contexts == {"nil", "given"}
URLs == {"empty", "unreachable", "good"}

\* A NewClient call is about to start: no connection, no producer, no Consume
\* call under way.
InitClient ==
    /\ concurrency = 1
    /\ pc = "start"
    /\ via = "none"
    /\ ret = "none"
    /\ ch = "none"
    /\ closeChan = "empty"
    /\ msgsClosed = FALSE
    /\ nread = 0
    /\ body = [d \in Deliveries |-> "unknown"]
    /\ st = [d \in Deliveries |-> "unread"]
    /\ outcome = [d \in Deliveries |-> "none"]
    /\ acks = [d \in Deliveries |-> 0]
    /\ nacks = [d \in Deliveries |-> 0]
    /\ requeue = [d \in Deliveries |-> FALSE]
    /\ semaphore = 0
    /\ wg = 0
    /\ done = FALSE
    /\ shutdownErr = "nil"
    /\ cpc = "idle"
    /\ conn = "none"
    /\ chs = [k \in Channels |-> "unopened"]
    /\ nch = 0
    /\ pch = 0
    /\ mu = 0
    /\ ncalls = 0
    /\ call = [c \in Callers |-> NoCall]
    /\ mon = [k \in Channels |-> "none"]
    /\ watch = [k \in Channels |-> 0]
    /\ PubSubIdle
    /\ WebIdle
    /\ \E x \in Contexts, u \in URLs :
         /\ client = [pc |-> "new", ctx |-> x, url |-> u, dials |-> 0,
                      result |-> "none", closes |-> 0, lastClose |-> "none",
                      isClosed |-> "none", producer |-> "none"]
         /\ ctxDone \in IF x = "nil" THEN {FALSE} ELSE BOOLEAN

\* The context given to NewClient is cancelled by its owner.
CancelClientContext == client.ctx = "given" /\ CancelContext

NextClient ==
    \/ NewClientValidate
    \/ NewClientDial
    \/ NewClientCheck
    \/ NewProducer
    \/ ClientIsClosed
    \/ ClientClose
    \/ \E k \in Channels : MonitorRegister(k)
    \/ \E k \in Channels : MonitorChannelClosed(k)
    \/ \E k \in Channels : MonitorCancelled(k)
    \/ ConnectionCloses
    \/ CancelClientContext

SpecClient == InitClient /\ [][NextClient]_vars

-----------------------------------------------------------------------------
(* Properties of the producer                                              *)

\* Publish calls that found p.ch closed at line 82 and went into reconnect.
Reconnecting == {c \in Callers : call[c].op = "publish" /\ call[c].found}

\* Callers inside the region guarded by p.mu.
InRegion == {c \in Callers : call[c].pc \in {"declare", "send", "closing"}}

\* C17: a Publish with valid arguments that finds the channel closed and the
\* connection live opens exactly one new channel, declares the queue and sends
\* on that new channel and, the new channel serving both requests, returns
\* nil.
C17_ReconnectOnceThenPublish ==
    \A c \in Reconnecting :
        /\ call[c].opens <= 1
        /\ call[c].result # "errConnClosed" => call[c].opens = 1
        /\ call[c].result = "nil" =>
              /\ call[c].newCh # 0
              /\ call[c].declCh = call[c].newCh
              /\ call[c].sendCh = call[c].newCh
        /\ (call[c].pc = "idle" /\ call[c].newCh # 0 /\ chs[call[c].newCh] = "open")
              => call[c].result = "nil"

C17_Witness ==
    \E c \in Reconnecting :
        /\ call[c].pc = "idle"
        /\ call[c].result = "nil"
        /\ call[c].opens = 1
        /\ call[c].sendCh = call[c].newCh
        /\ call[c].newCh > 1

\* C18: with the connection closed, a Publish that gets the mutex returns the
\* connection-closed error in that step: it opens no channel, declares
\* nothing, sends nothing and leaves the channel reference as it was.
C18_Step(c) ==
    (call[c].pc = "lock" /\ call'[c].pc # "lock" /\ conn = "closed") =>
        /\ call'[c].pc = "idle"
        /\ call'[c].result = "errConnClosed"
        /\ call'[c].opens = 0
        /\ call'[c].declCh = 0
        /\ call'[c].sendCh = 0
        /\ pch' = pch
        /\ nch' = nch
        /\ chs' = chs
        /\ mon' = mon

C18_FailFastOnClosedConnection == [][\A c \in Callers : C18_Step(c)]_vars

C18_Witness ==
    \E c \in Callers :
        /\ call[c].op = "publish"
        /\ call[c].pc = "idle"
        /\ call[c].result = "errConnClosed"
        /\ call[c].opens = 0

\* C19: at most one caller is inside the check / reconnect / declare / send
\* region (or inside Close) at any time, and it is the holder of the mutex.
C19_Serialized ==
    /\ Cardinality(InRegion) <= 1
    /\ \A c \in InRegion : mu = c
    /\ mu # 0 => mu \in InRegion

C19_Witness ==
    \E c1, c2 \in Callers :
        /\ c1 # c2
        /\ call[c1].pc \in {"declare", "send"}
        /\ call[c1].found
        /\ call[c2].pc \in {"lock", "lockClose"}

\* C20: every access to the channel reference is made under the producer's
\* mutex; the observer's read of it, were it made under the mutex, would
\* never happen while a caller holds the mutex.
C20_ObserverReadsUnderMutex ==
    [][\A k \in Channels :
          (mon[k] = "start" /\ mon'[k] = "watching") => mu = 0]_vars

\* The errors Publish returns for its arguments (lines 65-76).
ValidationErrors == {"errEmptyQueue", "errNilBody", "errMarshal"}

\* Caller c's Publish call returns in this step with an error of the
\* transport: the declare or the send failed on a closed channel.
ReturnsTransportError(c) ==
    /\ call[c].op = "publish"
    /\ call[c].pc \in {"declare", "send"}
    /\ call'[c].pc = "idle"
    /\ call'[c].result \in {"errDeclare", "errPublish"}

\* C21: a channel found closed while a Publish is under way is retried once
\* on a fresh channel: a declare or send error reaches the caller only from
\* a call that has made its reconnection attempt.
C21_ErrorOnlyAfterRetry ==
    [][\A c \in Callers : ReturnsTransportError(c) => call'[c].opens = 1]_vars

\* C22: a Publish with valid arguments returns an error of a closed channel
\* only when the connection is closed.
C22_ErrorOnlyIfConnectionClosed ==
    [][\A c \in Callers : ReturnsTransportError(c) => conn = "closed"]_vars

\* C23: a Publish that returns a validation error does so in one step that
\* leaves the mutex, the channel reference, the channels, the monitors and the
\* connection as they were, and it has checked, opened, declared and sent
\* nothing.
C23_Step(c) ==
    (call'[c] # call[c] /\ call'[c].result \in ValidationErrors) =>
        /\ call[c].pc = "idle"
        /\ call'[c].pc = "idle"
        /\ ~call'[c].found
        /\ call'[c].opens = 0
        /\ call'[c].declCh = 0
        /\ call'[c].sendCh = 0
        /\ UNCHANGED <<mu, pch, nch, chs, mon, watch, conn>>

C23_ValidationIsLocal == [][\A c \in Callers : C23_Step(c)]_vars

\* A validation error was returned while the other caller holds the mutex
\* and the channel is closed.
C23_Witness ==
    \E c1, c2 \in Callers :
        /\ call[c1].result \in ValidationErrors
        /\ call[c1].pc = "idle"
        /\ call[c2].pc \in {"declare", "send"}
        /\ mu = c2
        /\ chs[pch] = "closed"
        /\ nch = 1

\* C24: within a Publish call the send is attempted only after the queue was
\* declared on the channel, the send goes to the channel of the declare, and
\* a failed declare ends the call with an error and without a send.
C24_DeclareBeforeSend ==
    \A c \in Callers :
        call[c].op = "publish" =>
            /\ call[c].pc = "send" => call[c].declCh = pch
            /\ call[c].sendCh # 0 => call[c].declCh = call[c].sendCh
            /\ call[c].result = "nil" => call[c].sendCh # 0
            /\ call[c].result = "errPublish" => call[c].declCh # 0
            /\ call[c].result = "errDeclare" =>
                  (call[c].declCh = 0 /\ call[c].sendCh = 0 /\ call[c].pc = "idle")

C24_Witness ==
    \E c1, c2 \in Callers :
        /\ call[c1].result = "nil"
        /\ call[c1].declCh = call[c1].sendCh
        /\ call[c1].sendCh # 0
        /\ call[c2].result = "errDeclare"
        /\ call[c2].sendCh = 0

\* The observers that are running: started and not yet returned.
RunningObservers == {k \in Channels : mon[k] \in {"start", "watching"}}

\* C25: no observer is leaked: once the context is cancelled the number of
\* running observers comes to zero, whatever the number of channels opened,
\* and an observer whose watched channel is closed returns.
C25_ObserversTerminate ==
    /\ ctxDone ~> (RunningObservers = {})
    /\ \A k \in Channels :
         (mon[k] = "watching" /\ chs[watch[k]] = "closed") ~> (mon[k] = "exited")

\* Two channel generations; the observer of the second returned on the
\* cancellation, its channel still open.
C25_Witness ==
    /\ ctxDone
    /\ nch = 2
    /\ RunningObservers = {}
    /\ mon[1] = "exited"
    /\ mon[2] = "exited"
    /\ chs[watch[2]] = "open"

\* Caller c's Publish call returns in this step.
PublishReturns(c) ==
    /\ call'[c] # call[c]
    /\ call'[c].op = "publish"
    /\ call'[c].pc = "idle"

\* C26: a closed connection does not heal: it stays closed, none of its
\* channels is open or opened again, and every Publish that returns while it
\* is closed returns an error.
C26_Step ==
    conn = "closed" =>
        /\ conn' = "closed"
        /\ nch' = nch
        /\ \A k \in Channels : chs'[k] # "open"
        /\ \A c \in Callers : PublishReturns(c) => call'[c].result # "nil"

C26_NoPublishAfterConnectionLoss == [][C26_Step]_vars

\* Both callers published after the connection was lost; both got the
\* connection-closed error.
C26_Witness ==
    /\ conn = "closed"
    /\ \A c \in Callers :
         /\ call[c].op = "publish"
         /\ call[c].pc = "idle"
         /\ call[c].result = "errConnClosed"

-----------------------------------------------------------------------------
(* Properties of the client                                                *)

\* C27: Close is idempotent: a second client.Close returns nil and changes
\* nothing, and so does a producer Close that finds the channel closed.
C27_Step ==
    /\ (client.closes >= 1 /\ client'.closes = client.closes + 1) =>
          (client'.lastClose = "nil" /\ UNCHANGED <<conn, chs>>)
    /\ \A c \in Callers :
          (call[c].pc = "closing" /\ call'[c].pc = "idle" /\ chs[pch] # "open") =>
              (call'[c].result = "nil" /\ UNCHANGED <<conn, chs>>)

C27_CloseIdempotent == [][C27_Step]_vars

\* C28: NewClient dials at most once, and not at all for a nil context or an
\* empty URL; it fails, returning an error and no client, for a nil context,
\* an empty URL, a failed dial and a dialed connection that reports closed;
\* the client it returns has a context, a URL and a connection dialed once.
C28_Inv ==
    /\ client.dials <= 1
    /\ (client.ctx = "nil" \/ client.url = "empty") =>
          (client.dials = 0 /\ client.pc \in {"new", "failed"} /\ conn = "none")
    /\ client.pc = "failed" =>
          /\ client.result \in {"errNilContext", "errEmptyURL", "errDial",
                                "errConnClosed"}
          /\ client.closes = 0
          /\ client.producer = "none"
          /\ client.isClosed = "none"
    /\ client.result = "errNilContext" <=> (client.pc = "failed" /\ client.ctx = "nil")
    /\ client.result = "errEmptyURL" <=>
          (client.pc = "failed" /\ client.ctx # "nil" /\ client.url = "empty")
    /\ client.result = "errDial" => (client.dials = 1 /\ conn = "none")
    /\ client.result = "errConnClosed" => (client.dials = 1 /\ conn = "closed")
    /\ client.pc = "ready" =>
          /\ client.result = "nil"
          /\ client.ctx # "nil"
          /\ client.url = "good"
          /\ client.dials = 1

C28_Step ==
    /\ (client.pc = "dialed" /\ client'.pc # "dialed" /\ conn = "closed") =>
          (client'.pc = "failed" /\ client'.result = "errConnClosed")
    /\ (client.pc = "dial" /\ client'.pc = "dial") => client' = client

C28_NewClientFailsWithoutRetry == [](C28_Inv) /\ [][C28_Step]_vars

\* The dial succeeded and the connection was closed before NewClient looked
\* at it.
C28_Witness ==
    /\ client.pc = "failed"
    /\ client.result = "errConnClosed"
    /\ client.dials = 1
    /\ conn = "closed"

-----------------------------------------------------------------------------
(* Pub/Sub: CreateTopic and CreateSubscription (part_003:75-124)           *)
(*                                                                         *)
(* Callers are goroutines that call the two methods on one client.  The    *)
(* service answers an existence check truthfully or with an error; it      *)
(* creates a resource that does not exist yet (a subscription only on an   *)
(* existing topic) or answers a create with an error; nothing is deleted.  *)

\* RabbitMQ at rest: no Consume call under way, the producer and the client
\* as constructed.
QuietRabbit ==
    /\ concurrency = 1
    /\ pc = "start"
    /\ via = "none"
    /\ ret = "none"
    /\ ch = "none"
    /\ closeChan = "empty"
    /\ msgsClosed = FALSE
    /\ nread = 0
    /\ body = [d \in Deliveries |-> "unknown"]
    /\ st = [d \in Deliveries |-> "unread"]
    /\ outcome = [d \in Deliveries |-> "none"]
    /\ acks = [d \in Deliveries |-> 0]
    /\ nacks = [d \in Deliveries |-> 0]
    /\ requeue = [d \in Deliveries |-> FALSE]
    /\ semaphore = 0
    /\ wg = 0
    /\ done = FALSE
    /\ shutdownErr = "nil"
    /\ cpc = "idle"
    /\ ctxDone = FALSE
    /\ ProducerNew
    /\ client = ClientReady

\* The record of an administrative call that ends with result r.
AdmFin(rec, r) == [rec EXCEPT !.pc = "idle", !.result = r]

\* CreateTopic("") and CreateSubscription with an empty topic or subscription
\* ID (lines 77-79, 99-104): refused before any request.
CreateInvalid(a) ==
    /\ adm[a].pc = "idle"
    /\ nadm < MaxAdminCalls
    /\ nadm' = nadm + 1
    /\ \E r \in Resources :
         adm' = [adm EXCEPT ![a] = [NoAdm EXCEPT !.op = r, !.result = "errEmptyID"]]
    /\ UNCHANGED <<webVars, consVars, ctxDone, prodVars, client, exists, created, rcv, msg>>

\* CreateTopic or CreateSubscription with non-empty IDs comes to its
\* existence check.
CreateBegin(a) ==
    /\ adm[a].pc = "idle"
    /\ nadm < MaxAdminCalls
    /\ nadm' = nadm + 1
    /\ \E r \in Resources :
         adm' = [adm EXCEPT ![a] = [NoAdm EXCEPT !.op = r, !.pc = "check"]]
    /\ UNCHANGED <<webVars, consVars, ctxDone, prodVars, client, exists, created, rcv, msg>>

\* topic.Exists / sub.Exists (lines 82-87, 107-112): an error is returned;
\* an existing resource ends the call with nil; an absent one leads to the
\* create.
CreateExists_AlwaysCreate(a) ==
    /\ adm[a].pc = "check"
    /\ \/ adm' = [adm EXCEPT ![a] = AdmFin(adm[a], "errExists")]
       \/ adm' = [adm EXCEPT ![a] =
                    [adm[a] EXCEPT !.pc = "create",
                                   !.saw = IF exists[adm[a].op] THEN "yes" ELSE "no"]]
    /\ UNCHANGED <<webVars, consVars, ctxDone, prodVars, client, exists, created, nadm, rcv, msg>>
CreateExists(a) ==
    /\ adm[a].pc = "check"
    /\ \/ adm' = [adm EXCEPT ![a] = AdmFin(adm[a], "errExists")]
       \/ /\ exists[adm[a].op]
          /\ adm' = [adm EXCEPT ![a] = AdmFin([adm[a] EXCEPT !.saw = "yes"], "nil")]
       \/ /\ ~exists[adm[a].op]
          /\ adm' = [adm EXCEPT ![a] = [adm[a] EXCEPT !.pc = "create", !.saw = "no"]]
    /\ UNCHANGED <<webVars, consVars, ctxDone, prodVars, client, exists, created, nadm, rcv, msg>>

\* pubsubClient.CreateTopic / CreateSubscription (lines 88-91, 113-120): the
\* request is issued; the service creates the resource and the call returns
\* nil, or the request fails (also: the resource exists by now, the topic of
\* the subscription does not exist) and the call returns the error.
CreateIssue(a) ==
    /\ adm[a].pc = "create"
    /\ LET r == adm[a].op
           me == [adm[a] EXCEPT !.issued = @ + 1] IN
       \/ /\ adm' = [adm EXCEPT ![a] = AdmFin(me, "errCreate")]
          /\ UNCHANGED <<exists, created>>
       \/ /\ ~exists[r]
          /\ r = "subscription" => exists["topic"]
          /\ exists' = [exists EXCEPT ![r] = TRUE]
          /\ created' = [created EXCEPT ![r] = @ + 1]
          /\ adm' = [adm EXCEPT ![a] = AdmFin(me, "nil")]
    /\ UNCHANGED <<webVars, consVars, ctxDone, prodVars, client, nadm, rcv, msg>>

NextAdmin ==
    \/ \E a \in Callers : CreateInvalid(a)
    \/ \E a \in Callers : CreateBegin(a)
    \/ \E a \in Callers : CreateExists(a)
    \/ \E a \in Callers : CreateIssue(a)

\* Any of the two resources may exist before the first call.
InitAdmin ==
    /\ QuietRabbit
    /\ WebIdle
    /\ exists \in [Resources -> BOOLEAN]
    /\ created = [r \in Resources |-> 0]
    /\ nadm = 0
    /\ adm = [a \in Callers |-> NoAdm]
    /\ rcv = [pc |-> "idle", concurrency |-> 1, settings |-> {},
              result |-> "none"]
    /\ msg = [m \in Messages |-> NoMsg]

SpecAdmin == InitAdmin /\ [][NextAdmin]_vars

\* C29: CreateTopic and CreateSubscription check and then create if absent:
\* a call whose check finds the resource returns nil and issues no create; a
\* call that returned nil leaves the resource existing, so that a repeated
\* call finds it; no call issues more than one create and the resource is
\* created once.
C29_Inv ==
    /\ \A r \in Resources : created[r] <= 1
    /\ \A a \in Callers :
         /\ adm[a].issued <= 1
         /\ adm[a].issued = 1 => adm[a].saw = "no"
         /\ adm[a].saw = "yes" =>
               (adm[a].pc = "idle" /\ adm[a].result = "nil" /\ adm[a].issued = 0)
         /\ adm[a].result = "nil" => exists[adm[a].op]

C29_Step(a) ==
    (/\ adm[a].pc = "check"
     /\ adm'[a].pc # "check"
     /\ exists[adm[a].op]
     /\ adm'[a].result # "errExists") =>
        /\ adm'[a].pc = "idle"
        /\ adm'[a].result = "nil"
        /\ adm'[a].issued = 0
        /\ UNCHANGED <<exists, created>>

C29_CreateIfAbsent == [](C29_Inv) /\ [][\A a \in Callers : C29_Step(a)]_vars

\* One call created the subscription, the repeated call found it.
C29_Witness ==
    \E a1, a2 \in Callers :
        /\ adm[a1].op = "subscription"
        /\ adm[a1].saw = "no"
        /\ adm[a1].issued = 1
        /\ adm[a1].result = "nil"
        /\ adm[a2].op = "subscription"
        /\ adm[a2].saw = "yes"
        /\ adm[a2].issued = 0
        /\ adm[a2].result = "nil"
        /\ created["subscription"] = 1

-----------------------------------------------------------------------------
(* Pub/Sub: the subscriber's Receive and handleMessage (part_004:64-118)   *)
(*                                                                         *)
(* subscription.Receive hands messages to the callback, at most            *)
(* MaxOutstandingMessages at a time, until the context is cancelled or the *)
(* service fails, and returns when the callbacks under way have returned.  *)

\* Messages whose handleMessage call is under way.
Outstanding == {m \in Messages : msg[m].st = "handling"}

\* Receive with concurrency <= 0 (lines 65-67).
ReceiveInvalid_AfterSettings ==
    /\ rcv.pc = "idle"
    /\ rcv.concurrency <= 0
    /\ rcv' = [rcv EXCEPT !.pc = "returned", !.result = "errConcurrency",
                          !.settings = {rcv.concurrency}]
    /\ UNCHANGED <<webVars, consVars, ctxDone, prodVars, client, exists, created, nadm, adm, msg>>
ReceiveInvalid ==
    /\ rcv.pc = "idle"
    /\ rcv.concurrency <= 0
    /\ rcv' = [rcv EXCEPT !.pc = "returned", !.result = "errConcurrency"]
    /\ UNCHANGED <<webVars, consVars, ctxDone, prodVars, client, exists, created, nadm, adm, msg>>

\* Receive with concurrency > 0 sets the receive settings and calls
\* subscription.Receive (lines 70-80).
ReceiveStart ==
    /\ rcv.pc = "idle"
    /\ rcv.concurrency > 0
    /\ rcv' = [rcv EXCEPT !.pc = "receiving", !.settings = {rcv.concurrency}]
    /\ UNCHANGED <<webVars, consVars, ctxDone, prodVars, client, exists, created, nadm, adm, msg>>

\* The library calls the callback for a message: handleMessage starts and
\* calls the handler (lines 78-80, 94-105).
SubDeliver(m) ==
    /\ rcv.pc = "receiving"
    /\ ~ctxDone
    /\ msg[m].st = "pending"
    /\ \A n \in rcv.settings : Cardinality(Outstanding) < n
    /\ msg' = [msg EXCEPT ![m].st = "handling"]
    /\ UNCHANGED <<webVars, consVars, ctxDone, prodVars, client, exists, created, nadm, adm, rcv>>

\* What handleMessage does with the handler's outcome (lines 95-117): an
\* error is nacked and the function returns; nil is acked; a panic is
\* recovered by the deferred function, which nacks.
SubResolution_NoReturn(o) ==
    CASE o = "nil"   -> [acks |-> 1, nacks |-> 0, propagated |-> FALSE]
      [] o = "err"   -> [acks |-> 1, nacks |-> 1, propagated |-> FALSE]
      [] o = "panic" -> [acks |-> 0, nacks |-> 1, propagated |-> FALSE]
SubResolution(o) ==
    CASE o = "nil"   -> [acks |-> 1, nacks |-> 0, propagated |-> FALSE]
      [] o = "err"   -> [acks |-> 0, nacks |-> 1, propagated |-> FALSE]
      [] o = "panic" -> [acks |-> 0, nacks |-> 1, propagated |-> FALSE]

\* The handler returns nil or an error, or panics, and handleMessage ends.
SubHandlerEnds(m) ==
    /\ msg[m].st = "handling"
    /\ \E o \in Outcomes :
         msg' = [msg EXCEPT ![m] =
                   [st |-> "done", outcome |-> o,
                    acks |-> msg[m].acks + SubResolution(o).acks,
                    nacks |-> msg[m].nacks + SubResolution(o).nacks,
                    propagated |-> SubResolution(o).propagated]]
    /\ UNCHANGED <<webVars, consVars, ctxDone, prodVars, client, exists, created, nadm, adm, rcv>>

\* subscription.Receive returns nil after the context was cancelled
\* (lines 89-91).
ReceiveStops ==
    /\ rcv.pc = "receiving"
    /\ ctxDone
    /\ Outstanding = {}
    /\ rcv' = [rcv EXCEPT !.pc = "returned", !.result = "nil"]
    /\ UNCHANGED <<webVars, consVars, ctxDone, prodVars, client, exists, created, nadm, adm, msg>>

\* subscription.Receive returns an error (lines 82-87).
ReceiveFails ==
    /\ rcv.pc = "receiving"
    /\ Outstanding = {}
    /\ rcv' = [rcv EXCEPT !.pc = "returned", !.result = "errReceive"]
    /\ UNCHANGED <<webVars, consVars, ctxDone, prodVars, client, exists, created, nadm, adm, msg>>

NextSubscriber ==
    \/ ReceiveInvalid
    \/ ReceiveStart
    \/ \E m \in Messages : SubDeliver(m)
    \/ \E m \in Messages : SubHandlerEnds(m)
    \/ ReceiveStops
    \/ ReceiveFails
    \/ CancelContext

\* A subscriber on an existing subscription; Receive is called with any
\* concurrency.
InitSubscriber ==
    /\ QuietRabbit
    /\ WebIdle
    /\ exists = [r \in Resources |-> TRUE]
    /\ created = [r \in Resources |-> 0]
    /\ nadm = 0
    /\ adm = [a \in Callers |-> NoAdm]
    /\ \E n \in Concurrencies :
         rcv = [pc |-> "idle", concurrency |-> n, settings |-> {},
                result |-> "none"]
    /\ msg = [m \in Messages |-> NoMsg]

SpecSubscriber == InitSubscriber /\ [][NextSubscriber]_vars

\* C30: for every message handed to handleMessage exactly one of Ack and Nack
\* is called, once: Ack exactly when the handler returned nil, Nack when it
\* returned an error or panicked; the panic does not leave handleMessage.
C30_AckXorNack ==
    \A m \in Messages :
        /\ msg[m].st # "done" => (msg[m].acks = 0 /\ msg[m].nacks = 0)
        /\ msg[m].st = "done" =>
              /\ msg[m].acks + msg[m].nacks = 1
              /\ msg[m].acks = 1 <=> msg[m].outcome = "nil"
              /\ msg[m].outcome \in {"err", "panic"} => msg[m].nacks = 1
              /\ ~msg[m].propagated

C30_Witness ==
    \E m1, m2 \in Messages :
        /\ msg[m1].st = "done"
        /\ msg[m1].outcome = "panic"
        /\ msg[m1].nacks = 1
        /\ msg[m2].st = "done"
        /\ msg[m2].outcome = "err"
        /\ msg[m2].nacks = 1
        /\ msg[m2].acks = 0

\* C31: Receive with concurrency <= 0 returns its error at once: the receive
\* settings stay as they were, subscription.Receive is not started and no
\* message reaches the handler.
C31_Inv ==
    rcv.concurrency <= 0 =>
        /\ rcv.pc \in {"idle", "returned"}
        /\ rcv.pc = "returned" => rcv.result = "errConcurrency"
        /\ rcv.settings = {}
        /\ \A m \in Messages : msg[m] = NoMsg

C31_Step ==
    (rcv.concurrency <= 0 /\ rcv' # rcv) =>
        /\ rcv.pc = "idle"
        /\ rcv'.pc = "returned"
        /\ rcv'.result = "errConcurrency"
        /\ rcv'.settings = rcv.settings
        /\ msg' = msg

C31_ReceiveRejectsNonPositive == [](C31_Inv) /\ [][C31_Step]_vars

C31_Witness ==
    /\ rcv.concurrency = 0
    /\ rcv.pc = "returned"
    /\ rcv.result = "errConcurrency"
    /\ rcv.settings = {}

-----------------------------------------------------------------------------
(* The Authenticate middleware and the AuthProfile (part_008:100-263)      *)

\* The required headers in the order Authenticate reads them (lines 170-204).
RequiredHeaders == <<headerXIssuer, headerXWorkspaceId, headerXUserId,
                     headerXZarvRole, headerXAccessLevel>>

\* Mutant: the access level is not required.
MissingHeader_UpToRole(h) ==
    \E i \in 1..(Len(RequiredHeaders) - 1) : h[RequiredHeaders[i]] = ""

\* Whether one of the required headers is empty.
MissingHeader(h) == \E i \in 1..Len(RequiredHeaders) : h[RequiredHeaders[i]] = ""

\* The switch on the issuer (lines 206-213).
SourceOf(issuer) ==
    IF issuer \in {"ultron-app", "vision-app"} THEN verificationSourceUI
    ELSE verificationSourceAPI

\* The locals Authenticate stores for a request it lets through: those of an
\* internal request (lines 160-165), or those read from the headers
\* (lines 215-219).
StoredLocals(h) ==
    IF h[headerXInternal] # ""
    THEN [k \in LocalKeys |->
            CASE k = localSource -> h[headerXInternal]
              [] k = localWorkspaceId -> internalSource
              [] k = localUserId -> internalSource
              [] k = localRole -> headerZarverRole
              [] k = localAccessLevel -> accessLevelAdmin]
    ELSE [k \in LocalKeys |->
            CASE k = localSource -> SourceOf(h[headerXIssuer])
              [] k = localWorkspaceId -> h[headerXWorkspaceId]
              [] k = localUserId -> h[headerXUserId]
              [] k = localRole -> h[headerXZarvRole]
              [] k = localAccessLevel -> h[headerXAccessLevel]]

\* Mutant: an internal request needs the required headers too.
Passes_InternalChecked(h) == ~MissingHeader(h)

\* Authenticate passes the request on (lines 159-168, 215-220) or answers it
\* itself (lines 170-204).
Passes(h) == h[headerXInternal] # "" \/ ~MissingHeader(h)

\* Authenticate (lines 158-221): an internal request and a request with all
\* the required headers get their locals stored and go to the next handler;
\* any other request is answered with 400 and goes no further.
Authenticate ==
    /\ auth.pc = "request"
    /\ auth' = IF Passes(auth.headers)
               THEN [auth EXCEPT !.pc = "done", !.next = TRUE,
                                 !.locals = StoredLocals(auth.headers)]
               ELSE [auth EXCEPT !.pc = "done", !.status = StatusBadRequest]
    /\ UNCHANGED <<consVars, ctxDone, prodVars, client, gcpVars, pub>>

\* c.Locals(key).(string) with the second result dropped (lines 227-231): a
\* key nothing was stored under gives "".
LocalString(l, k) == IF l[k] = Nil THEN "" ELSE l[k]

\* GetAuthProfile (lines 226-240), called by the handler the request was
\* passed on to (lines 15-18).
GetAuthProfile ==
    /\ auth.pc = "done"
    /\ auth.next
    /\ auth.from = "none"
    /\ auth' = [auth EXCEPT
                  !.from = "context",
                  !.profile = [WorkspaceID |-> LocalString(auth.locals, localWorkspaceId),
                               UserID |-> LocalString(auth.locals, localUserId),
                               Role |-> LocalString(auth.locals, localRole),
                               Source |-> LocalString(auth.locals, localSource),
                               AccessLevel |-> LocalString(auth.locals, localAccessLevel)]]
    /\ UNCHANGED <<consVars, ctxDone, prodVars, client, gcpVars, pub>>

\* An AuthProfile written as a literal with a role and an access level
\* (lines 76-79, 84-87).
ProfileLiteral(r, a) ==
    /\ auth.from = "none"
    /\ auth' = [auth EXCEPT !.from = "literal",
                            !.profile = [ZeroProfile EXCEPT !.Role = r,
                                                            !.AccessLevel = a]]
    /\ UNCHANGED <<consVars, ctxDone, prodVars, client, gcpVars, pub>>

\* Mutant: the role is not looked at.
IsZarvAdmin_AnyRole(profile) ==
    profile.AccessLevel = accessLevelAdmin
    \/ profile.AccessLevel = accessLevelSupervisor

\* IsZarvAdmin (lines 245-251).
IsZarvAdmin(profile) ==
    IF profile.Role # headerZarverRole THEN FALSE
    ELSE profile.AccessLevel = accessLevelAdmin
         \/ profile.AccessLevel = accessLevelSupervisor

\* IsUserAdmin (lines 255-257).
IsUserAdmin(profile) ==
    profile.AccessLevel = accessLevelAdmin
    \/ profile.AccessLevel = accessLevelSupervisor

\* IsViewer (lines 261-263).
IsViewer(profile) == profile.AccessLevel = accessLevelViewer

\* The three methods called on the profile (lines 80-82, 88-90).
ProfileMethods ==
    /\ auth.from # "none"
    /\ ~auth.asked
    /\ auth' = [auth EXCEPT
                  !.asked = TRUE,
                  !.answers = [IsZarvAdmin |-> IsZarvAdmin(auth.profile),
                               IsUserAdmin |-> IsUserAdmin(auth.profile),
                               IsViewer |-> IsViewer(auth.profile)]]
    /\ UNCHANGED <<consVars, ctxDone, prodVars, client, gcpVars, pub>>

NextAuth ==
    \/ Authenticate
    \/ GetAuthProfile
    \/ \E r \in HeaderValues(headerXZarvRole),
          a \in HeaderValues(headerXAccessLevel) : ProfileLiteral(r, a)
    \/ ProfileMethods

\* A request with any headers arrives; RabbitMQ and Pub/Sub are at rest.
InitAuth ==
    /\ QuietRabbit
    /\ PubSubIdle
    /\ pub = PublisherNew
    /\ \E r \in Requests : auth = [NoRequest EXCEPT !.headers = r]

SpecAuth == InitAuth /\ [][NextAuth]_vars


-----------------------------------------------------------------------------
(* The Pub/Sub publisher (part_003:159-240)                                *)

\* The bodies a caller may pass: nil, a value json.Marshal rejects, a value
\* it accepts.
Bodies == {"nil", "unmarshalable", "ok"}

\* A publisher call returns r.
PubFin(c, r) == [pub.call[c] EXCEPT !.pc = "idle", !.result = r]

\* A caller calls Publish or PublishWithAttributes with a body (lines
\* 192-199).
PublisherPublishBegin(c) ==
    /\ pub.call[c].pc = "idle"
    /\ pub.ncalls < MaxCalls
    /\ \E b \in Bodies :
         pub' = [pub EXCEPT !.ncalls = @ + 1,
                            !.call[c] = [NoPubCall EXCEPT !.op = "publish",
                                                          !.pc = "check",
                                                          !.body = b]]
    /\ UNCHANGED <<consVars, ctxDone, prodVars, client, gcpVars, auth>>

\* Lines 200-205: lock, read p.stopped, unlock; a stopped publisher answers
\* with an error.  The mutex is free again when the step ends.
CheckStopped(c) ==
    /\ pub.call[c].pc = "check"
    /\ pub.mu = 0
    /\ pub' = IF pub.stopped
              THEN [pub EXCEPT !.call[c] = PubFin(c, "errStopped")]
              ELSE [pub EXCEPT !.call[c].pc = "marshal"]
    /\ UNCHANGED <<consVars, ctxDone, prodVars, client, gcpVars, auth>>

\* Lines 207-214: the nil check and json.Marshal.
MarshalBody(c) ==
    /\ pub.call[c].pc = "marshal"
    /\ pub' = CASE pub.call[c].body = "nil" ->
                     [pub EXCEPT !.call[c] = PubFin(c, "errNilBody")]
                [] pub.call[c].body = "unmarshalable" ->
                     [pub EXCEPT !.call[c] = PubFin(c, "errMarshal")]
                [] OTHER -> [pub EXCEPT !.call[c].pc = "send"]
    /\ UNCHANGED <<consVars, ctxDone, prodVars, client, gcpVars, auth>>

\* Lines 216-219: p.topic.Publish is invoked, whatever p.stopped is by now.
TopicPublish(c) ==
    /\ pub.call[c].pc = "send"
    /\ pub' = [pub EXCEPT !.topicPublishes = @ + 1,
                          !.call[c].pc = "get",
                          !.call[c].sentStopped = pub.stopped,
                          !.call[c].sentOnStoppedTopic = pub.topicStops > 0]
    /\ UNCHANGED <<consVars, ctxDone, prodVars, client, gcpVars, auth>>

\* Lines 222-227: result.Get answers with the message ID or with an error; a
\* message handed to a stopped topic always gets the library's error.
ResultGet(c) ==
    /\ pub.call[c].pc = "get"
    /\ \E r \in IF pub.call[c].sentOnStoppedTopic THEN {"errPublish"}
                ELSE {"nil", "errPublish"} :
         pub' = [pub EXCEPT !.call[c] = PubFin(c, r)]
    /\ UNCHANGED <<consVars, ctxDone, prodVars, client, gcpVars, auth>>

\* A caller calls Stop (line 232).
StopBegin(c) ==
    /\ pub.call[c].pc = "idle"
    /\ pub.ncalls < MaxCalls
    /\ pub' = [pub EXCEPT !.ncalls = @ + 1,
                          !.call[c] = [NoPubCall EXCEPT !.op = "stop",
                                                        !.pc = "lockStop"]]
    /\ UNCHANGED <<consVars, ctxDone, prodVars, client, gcpVars, auth>>

\* p.mu.Lock() in Stop (line 233).
StopLock(c) ==
    /\ pub.call[c].pc = "lockStop"
    /\ pub.mu = 0
    /\ pub' = [pub EXCEPT !.mu = c, !.call[c].pc = "stopping"]
    /\ UNCHANGED <<consVars, ctxDone, prodVars, client, gcpVars, auth>>

\* Lines 236-237: with p.stopped unset, p.topic.Stop(); with it set, Stop
\* returns and unlocks.
StopTopic(c) ==
    /\ pub.call[c].pc = "stopping"
    /\ pub' = IF pub.stopped
              THEN [pub EXCEPT !.mu = 0, !.call[c] = PubFin(c, "nil")]
              ELSE [pub EXCEPT !.topicStops = @ + 1, !.call[c].pc = "flag"]
    /\ UNCHANGED <<consVars, ctxDone, prodVars, client, gcpVars, auth>>

\* Line 238 and the deferred unlock: p.stopped = true.
StopFlag(c) ==
    /\ pub.call[c].pc = "flag"
    /\ pub' = [pub EXCEPT !.stopped = TRUE, !.mu = 0,
                          !.call[c] = PubFin(c, "nil")]
    /\ UNCHANGED <<consVars, ctxDone, prodVars, client, gcpVars, auth>>

NextPublisher ==
    \/ \E c \in Callers : PublisherPublishBegin(c)
    \/ \E c \in Callers : CheckStopped(c)
    \/ \E c \in Callers : MarshalBody(c)
    \/ \E c \in Callers : TopicPublish(c)
    \/ \E c \in Callers : ResultGet(c)
    \/ \E c \in Callers : StopBegin(c)
    \/ \E c \in Callers : StopLock(c)
    \/ \E c \in Callers : StopTopic(c)
    \/ \E c \in Callers : StopFlag(c)

\* A publisher as NewPublisher returned it; RabbitMQ, the Pub/Sub
\* administration and the middleware are at rest.
InitPublisher ==
    /\ QuietRabbit
    /\ PubSubIdle
    /\ WebIdle

SpecPublisher == InitPublisher /\ [][NextPublisher]_vars

C34_ProfileMethods ==
    auth.asked =>
       /\ auth.answers.IsZarvAdmin <=>
             (auth.profile.Role = "zarver"
              /\ auth.profile.AccessLevel \in {"admin", "supervisor"})
       /\ auth.answers.IsUserAdmin <=>
             auth.profile.AccessLevel \in {"admin", "supervisor"}
       /\ auth.answers.IsViewer <=> auth.profile.AccessLevel = "viewer"
       /\ auth.answers.IsZarvAdmin => auth.answers.IsUserAdmin
       /\ auth.answers.IsViewer =>
             ~auth.answers.IsZarvAdmin /\ ~auth.answers.IsUserAdmin

\* The methods have answered for a supervisor who is no zarver: a user admin,
\* not a Zarv admin, not a viewer.
C34_Witness ==
    /\ auth.asked
    /\ auth.profile.Role = "member"
    /\ auth.profile.AccessLevel = "supervisor"
    /\ ~auth.answers.IsZarvAdmin
    /\ auth.answers.IsUserAdmin
    /\ ~auth.answers.IsViewer

\* C35: Consume does not return on its own: once in its processing loop it
\* stays there, however many deliveries it has processed, as long as the
\* context is not cancelled, the channel has not been closed and the delivery
\* stream is open.
C35_Running == ~ctxDone /\ ch = "open" /\ ~msgsClosed

C35_Inv == pc \in {"waitDone", "waitEos"} => ~C35_Running

C35_Step == (pc = "loop" /\ C35_Running) => pc' = "loop"

C35_ConsumeKeepsRunning == [](C35_Inv) /\ [][C35_Step]_vars

\* Consume has processed every delivery there is and is still in its loop.
C35_Witness ==
    /\ pc = "loop"
    /\ C35_Running
    /\ nread = MaxDeliveries
    /\ \A d \in Deliveries : st[d] \in {"finished", "emptyAcked"}
    /\ \E d \in Deliveries : st[d] = "finished"

\* C37: the channel Consume opened is closed by the time Consume returns, on
\* every return path after the opening (queue declare, QoS or consume
\* failure, cancellation, channel closure, stream end); Consume opens one
\* channel per call, at its start, and never opens another.
C37_Inv ==
    /\ (pc = "returned" /\ ret # "errOpen") => ch \in {"closed", "closedByError"}
    /\ (pc = "returned" /\ ret = "errOpen") => ch = "none"

C37_Step == (ch' = "open" /\ ch # "open") => (pc = "start" /\ ch = "none")

C37_ChannelClosedOnReturn == [](C37_Inv) /\ [][C37_Step]_vars

\* Consume returned nil from its loop with the channel still open when the
\* return was reached, and the deferred call closed it.
C37_Witness ==
    /\ pc = "returned"
    /\ via # "setup"
    /\ ret = "nil"
    /\ ch = "closed"
    /\ closeChan = "closed"
    /\ cpc = "select"

\* C36: a Publish call attempts at most one reconnection: when opening the
\* fresh channel fails, Publish returns an error after that one attempt,
\* performs no declare and no send, starts no observer and leaves p.ch at
\* the old closed channel; the next Publish then attempts the opening again.
C36_Inv ==
    \A c \in Callers :
       /\ call[c].opens <= 1
       /\ call[c].result = "errOpenChannel" =>
             /\ call[c].pc = "idle"
             /\ call[c].opens = 1
             /\ call[c].newCh = 0
             /\ call[c].declCh = 0
             /\ call[c].sendCh = 0

C36_Step ==
    \A c \in Callers :
       /\ (call[c].pc = "lock" /\ call'[c].result = "errOpenChannel") =>
             /\ chs[pch] # "open"
             /\ pch' = pch
             /\ chs' = chs
             /\ nch' = nch
             /\ mon' = mon
             /\ mu' = 0
       /\ (call[c].pc = "lock" /\ call'[c].pc # "lock"
           /\ chs[pch] # "open" /\ conn # "closed") => call'[c].opens = 1

C36_OneReconnectAttempt == [](C36_Inv) /\ [][C36_Step]_vars

\* One Publish failed to open a channel, and the Publish after it has opened
\* one and is about to declare on it.
C36_Witness ==
    \E c, e \in Callers :
       /\ c # e
       /\ call[c].pc = "idle"
       /\ call[c].result = "errOpenChannel"
       /\ call[e].pc = "declare"
       /\ call[e].found
       /\ call[e].newCh = pch
       /\ chs[pch] = "open"
       /\ mu = e

\* C38: when several Publish calls run concurrently on a producer whose
\* channel is closed and whose connection is live, and the freshly opened
\* channel stays open, one new channel is opened in total: the first call in
\* the critical section reconnects, every later call reuses that channel.
C38_Inv ==
    /\ pch = nch
    /\ \A k \in 2..nch : Cardinality({c \in Callers : call[c].newCh = k}) <= 1
    /\ \A c \in Callers : call[c].newCh # 0 => call[c].found /\ call[c].opens = 1

C38_Step ==
    /\ nch' # nch => /\ nch' = nch + 1
                     /\ chs[pch] # "open"
                     /\ conn # "closed"
                     /\ pch' = nch'
                     /\ chs'[pch'] = "open"
                     /\ \E c \in Callers : call[c].pc = "lock" /\ call'[c].newCh = nch'
    /\ \A c \in Callers :
          (call[c].pc = "lock" /\ call'[c].pc # "lock" /\ chs[pch] = "open") =>
             /\ nch' = nch
             /\ pch' = pch
             /\ call'[c].pc = "declare"
             /\ call'[c].opens = 0
             /\ call'[c].newCh = 0

C38_OneChannelForAll == [](C38_Inv) /\ [][C38_Step]_vars

\* Both callers published: one opened channel 2, the other declared and is
\* sending on it without having opened anything; channel 2 is still open.
C38_Witness ==
    \E c, e \in Callers :
       /\ c # e
       /\ call[c].op = "publish" /\ call[c].newCh = 2 /\ call[c].result = "nil"
       /\ call[e].op = "publish" /\ call[e].pc = "send"
       /\ call[e].opens = 0 /\ ~call[e].found /\ call[e].declCh = 2
       /\ nch = 2 /\ pch = 2 /\ chs[2] = "open"

\* C39: Close does not retire the producer: it closes the channel and
\* nothing else, and a Publish after Close has returned, with the connection
\* live, finds the channel closed, opens a new channel and sends, so the
\* producer can hold an open channel again.
C39_Closed == \E e \in Callers :
    call[e].op = "close" /\ call[e].pc = "idle" /\ call[e].result # "none"

C39_Step ==
    \A c \in Callers :
       /\ (call[c].pc = "closing" /\ call'[c].pc = "idle") =>
             /\ conn' = conn
             /\ pch' = pch
             /\ nch' = nch
             /\ mu' = 0
             /\ chs'[pch] # "open"
             /\ \A k \in Channels \ {pch} : chs'[k] = chs[k]
       /\ (/\ C39_Closed
           /\ call[c].pc = "lock" /\ call'[c].pc # "lock"
           /\ chs[pch] # "open" /\ conn = "open") =>
             \/ call'[c].pc = "idle" /\ call'[c].result = "errOpenChannel"
             \/ /\ call'[c].pc = "declare"
                /\ call'[c].newCh = nch + 1
                /\ pch' = nch + 1
                /\ chs'[pch'] = "open"

C39_CloseDoesNotRetire == [][C39_Step]_vars

\* Close returned nil having closed channel 1; the Publish after it opened
\* channel 2, sent on it and returned nil; channel 2 is open.
C39_Witness ==
    \E c, e \in Callers :
       /\ call[e].op = "close" /\ call[e].pc = "idle" /\ call[e].result = "nil"
       /\ call[c].op = "publish" /\ call[c].pc = "idle" /\ call[c].result = "nil"
       /\ call[c].found /\ call[c].newCh = 2 /\ call[c].sendCh = 2
       /\ chs[1] = "closed" /\ chs[2] = "open" /\ pch = 2
       /\ conn = "open"

\* C40: in every interleaving of PublishWithAttributes and Stop on one
\* publisher, topic.Publish is never invoked in a state where the stopped
\* flag is already set, and the underlying topic is stopped at most once
\* however many times Stop is called.
C40_NoPublishAfterStop ==
    /\ \A c \in Callers : ~pub.call[c].sentStopped
    /\ pub.topicStops <= 1

=============================================================================
